---- MODULE Spec2Model ----
(***************************************************************************)
(* Remote-attestation verification and attested secure-channel            *)
(* establishment of the OpenSecret Rust SDK (rust/src/attestation.rs,      *)
(* client.rs, crypto.rs, session.rs).                                      *)
(*                                                                         *)
(* Ten specifications:                                                     *)
(*   SpecVerify  AttestationVerifier::verify_attestation_document, stage   *)
(*               by stage, over a bounded set of envelopes and verifiers;  *)
(*   Spec        OpenSecretClient: concurrent attestation handshakes on    *)
(*               one client, with an untrusted network answering;          *)
(*   SpecStore   SessionManager's session slot behind its RwLock, with     *)
(*               the field-by-field memory accesses of each operation;     *)
(*   SpecCrypto  crypto.rs: sealing, opening and key agreement;            *)
(*   SpecApi     one handshake task and the client's encrypted API calls   *)
(*               (login, refresh_token, logout, a plain call);             *)
(*   SpecSession SpecApi with SessionManager's methods called directly;    *)
(*   SpecMode    one client built from each of a set of base URLs;         *)
(*   SpecShared  SpecApi with a second task's logout;                      *)
(*   SpecRead    SpecApi with a task that reads the session and tokens;    *)
(*   SpecPoint   extract_ec_point on public-key structures, byte by byte.  *)
(*                                                                         *)
(* Library code (base64, serde_cbor, x509-parser, ring, x25519-dalek,      *)
(* chacha20poly1305, uuid) is modelled by its contract: a parser either    *)
(* yields the value its input encodes or fails.                            *)
(***************************************************************************)
EXTENDS Integers, Sequences, FiniteSets, TLC

(***************************************************************************)
(* Results (Rust's Result<T, Error>) and options.                          *)
(***************************************************************************)
Ok(x) == [ok |-> TRUE, v |-> x]
Err(kind, msg) == [ok |-> FALSE, kind |-> kind, msg |-> msg]
None == [some |-> FALSE]
Some(x) == [some |-> TRUE, v |-> x]

\* An error message: its text and, where the source formats an index into
\* it, that index (-1 otherwise).
M(text) == [text |-> text, at |-> -1]
MAt(text, i) == [text |-> text, at |-> i]

\* Error::AttestationVerificationFailed(msg)
AVF(msg) == Err("AttestationVerificationFailed", msg)

(***************************************************************************)
(* Byte strings.  A byte string is tagged by what it encodes: plain bytes  *)
(* ("raw", a sequence of 0..255), the serde_cbor encoding of a value       *)
(* ("cbor"), the DER encoding of a certificate ("der"), or the bytes of a   *)
(* signature ("sig").                                                      *)
(***************************************************************************)
RawBytes(s) == [enc |-> "raw", x |-> s]
CborBytes(val) == [enc |-> "cbor", x |-> val]
DerBytes(cert) == [enc |-> "der", x |-> cert]
SigBytes(sig) == [enc |-> "sig", x |-> sig]
Garbage == RawBytes(<<255>>)

\* Strings are sequences of code points; the model's alphabet is ASCII
\* plus the byte 255, which no UTF-8 encoding contains.
Fill(n, b) == [i \in 1..n |-> b]

\* BASE64.decode: a wire string either is valid base64 of some bytes or not.
B64(bytes) == [valid |-> TRUE, x |-> bytes]
BadB64 == [valid |-> FALSE]
Base64Decode(s) ==
    IF s.valid THEN Ok(s.x) ELSE Err("Base64Decode", M("invalid base64"))

\* serde_cbor::from_slice
cbor_from_slice(bytes) ==
    IF bytes.enc = "cbor" THEN Ok(bytes.x) ELSE Err("Cbor", M("invalid CBOR"))

\* String::from_utf8
from_utf8(bytes) ==
    IF bytes.enc = "raw" /\ \A i \in 1..Len(bytes.x) : bytes.x[i] < 128
    THEN Ok(bytes.x)
    ELSE Err("Utf8", M("invalid utf-8"))

\* str::starts_with
starts_with(s, prefix) ==
    /\ Len(s) >= Len(prefix)
    /\ SubSeq(s, 1, Len(prefix)) = prefix

\* "mock-"
MockPrefix == <<109, 111, 99, 107, 45>>

(***************************************************************************)
(* CBOR values (serde_cbor::Value).                                        *)
(***************************************************************************)
CBytes(b) == [t |-> "Bytes", v |-> b]
CText(s) == [t |-> "Text", v |-> s]
CInt(i) == [t |-> "Integer", v |-> i]
CArray(items) == [t |-> "Array", v |-> items]
\* A map is the sequence of its entries in iteration order; an entry is
\* [k |-> key, v |-> value], a text key being a string and any other key
\* NonTextKey.
CMap(entries) == [t |-> "Map", v |-> entries]
CNull == [t |-> "Null"]
NonTextKey == "#non-text"
Entry(k, val) == [k |-> k, v |-> val]

(***************************************************************************)
(* Certificates and signatures.                                            *)
(* A certificate (the result of X509Certificate::from_der) is              *)
(*   subject, issuer   names                                               *)
(*   key               its public key: [id, size], size the length of the  *)
(*                     uncompressed EC point (97 for P-384, 65 for P-256)  *)
(*   signer            the id of the key that signed its TBS bytes         *)
(*   alg               its declared signature algorithm                    *)
(*   valid             whether its validity window contains now.           *)
(* A signature is [by, over, delta]: the signature key `by` makes over the *)
(* message `over`, with the bytes of `delta` added to it; the signature    *)
(* verifies under a key for a message iff by and over match and delta is   *)
(* all zero (an ideal signature scheme).                                   *)
(***************************************************************************)
SigLen == 3
EcdsaSha384 == "1.2.840.10045.4.3.3"
EcdsaSha256 == "1.2.840.10045.4.3.2"
Sha256WithRsa == "1.2.840.113549.1.1.11"
P384PointLen == 97
P256PointLen == 65

Key(id, size) == [id |-> id, size |-> size]
Cert(subject, issuer, key, signer, alg, valid) ==
    [subject |-> subject, issuer |-> issuer, key |-> key,
     signer |-> signer, alg |-> alg, valid |-> valid]

Sign(keyid, msg) == [by |-> keyid, over |-> msg, delta |-> Fill(SigLen, 0)]
FlipByte(sig, i) ==
    [sig EXCEPT !.delta = [sig.delta EXCEPT ![i] = 1]]
\* ring: UnparsedPublicKey::verify
ring_verify(keyid, msg, sig) ==
    /\ sig.by = keyid
    /\ sig.over = msg
    /\ sig.delta = Fill(SigLen, 0)

\* X509Certificate::from_der
from_der(bytes) ==
    IF bytes.enc = "der" THEN Ok(bytes.x) ELSE Err("X509", M("parse error"))

RootKey == Key(1, P384PointLen)
InterKey == Key(2, P384PointLen)
LeafKey == Key(3, P384PointLen)
RootCert == Cert("root", "root", RootKey, 1, EcdsaSha384, TRUE)
\* const AWS_NITRO_ROOT_CERT
AWS_NITRO_ROOT_CERT == DerBytes(RootCert)

(***************************************************************************)
(* attestation.rs: AttestationDocument and AttestationVerifier.            *)
(***************************************************************************)
\* struct AttestationVerifier { expected_pcrs, allow_debug }
AttestationVerifier(expected_pcrs, allow_debug) ==
    [expected_pcrs |-> expected_pcrs, allow_debug |-> allow_debug]

\* The document parse_attestation_document starts from.
EmptyDocument ==
    [module_id |-> <<>>, timestamp |-> 0, digest |-> <<>>, pcrs |-> <<>>,
     certificate |-> RawBytes(<<>>), cabundle |-> <<>>,
     public_key |-> None, user_data |-> None, nonce |-> None]

\* HashMap::insert on the PCR map (a function from indices to byte strings).
PcrInsert(pcrs, index, bytes) ==
    [i \in (DOMAIN pcrs) \cup {index} |-> IF i = index THEN bytes ELSE pcrs[i]]

\* ParsePcrs as it would be if the sign of an index were not tested.
RECURSIVE ParsePcrsSignUntested(_, _, _)
ParsePcrsSignUntested(entries, i, pcrs) ==
    IF i > Len(entries) THEN Ok(pcrs)
    ELSE LET e == entries[i] IN
         IF e.k.t # "Integer"
         THEN AVF(M("Invalid PCR index: not an integer"))
         ELSE IF e.v.t # "Bytes"
         THEN AVF(M("Invalid PCR value"))
         ELSE ParsePcrsSignUntested(entries, i + 1,
                                    PcrInsert(pcrs, e.k.v, e.v.v))

\* The loop over the entries of the "pcrs" map, from entry i on.
RECURSIVE ParsePcrs(_, _, _)
ParsePcrs(entries, i, pcrs) ==
    IF i > Len(entries) THEN Ok(pcrs)
    ELSE LET e == entries[i] IN
         IF e.k.t # "Integer"
         THEN AVF(M("Invalid PCR index: not an integer"))
         ELSE IF e.k.v < 0
         THEN AVF(M("Invalid PCR index: negative value"))
         ELSE IF e.v.t # "Bytes"
         THEN AVF(M("Invalid PCR value"))
         ELSE ParsePcrs(entries, i + 1, PcrInsert(pcrs, e.k.v, e.v.v))

\* ParseBundle as it would be if each certificate were put in front of
\* those before it.
RECURSIVE ParseBundleReversed(_, _, _)
ParseBundleReversed(items, i, bundle) ==
    IF i > Len(items) THEN Ok(bundle)
    ELSE IF items[i].t # "Bytes"
    THEN AVF(M("Invalid certificate in bundle"))
    ELSE ParseBundleReversed(items, i + 1, <<items[i].v>> \o bundle)

\* The loop over the items of the "cabundle" array, from item i on.
RECURSIVE ParseBundle(_, _, _)
ParseBundle(items, i, bundle) ==
    IF i > Len(items) THEN Ok(bundle)
    ELSE IF items[i].t # "Bytes"
    THEN AVF(M("Invalid certificate in bundle"))
    ELSE ParseBundle(items, i + 1, Append(bundle, items[i].v))

\* One iteration of the loop of parse_attestation_document.
ParseField(doc, key, value) ==
    IF key = NonTextKey
    THEN AVF(M("Invalid key in attestation document"))
    ELSE CASE key = "module_id" ->
                IF value.t = "Text"
                THEN Ok([doc EXCEPT !.module_id = value.v])
                ELSE AVF(M("Invalid module_id"))
           [] key = "timestamp" ->
                IF value.t # "Integer"
                THEN AVF(M("Invalid timestamp: not an integer"))
                ELSE IF value.v >= 0
                THEN Ok([doc EXCEPT !.timestamp = value.v])
                ELSE AVF(M("Invalid timestamp: negative value"))
           [] key = "digest" ->
                IF value.t = "Text"
                THEN Ok([doc EXCEPT !.digest = value.v])
                ELSE AVF(M("Invalid digest"))
           [] key = "pcrs" ->
                IF value.t # "Map"
                THEN AVF(M("Invalid PCRs format"))
                ELSE LET r == ParsePcrs(value.v, 1, doc.pcrs) IN
                     IF r.ok THEN Ok([doc EXCEPT !.pcrs = r.v]) ELSE r
           [] key = "certificate" ->
                IF value.t = "Bytes"
                THEN Ok([doc EXCEPT !.certificate = value.v])
                ELSE AVF(M("Invalid certificate"))
           [] key = "cabundle" ->
                IF value.t # "Array"
                THEN AVF(M("Invalid cabundle"))
                ELSE LET r == ParseBundle(value.v, 1, doc.cabundle) IN
                     IF r.ok THEN Ok([doc EXCEPT !.cabundle = r.v]) ELSE r
           [] key = "public_key" ->
                Ok([doc EXCEPT !.public_key =
                        IF value.t = "Bytes" THEN Some(value.v) ELSE None])
           [] key = "user_data" ->
                Ok([doc EXCEPT !.user_data =
                        IF value.t = "Bytes" THEN Some(value.v) ELSE None])
           [] key = "nonce" ->
                Ok([doc EXCEPT !.nonce =
                        IF value.t = "Bytes" THEN Some(value.v) ELSE None])
           [] OTHER -> Ok(doc)

RECURSIVE ParseFields(_, _, _)
ParseFields(entries, i, doc) ==
    IF i > Len(entries) THEN Ok(doc)
    ELSE LET r == ParseField(doc, entries[i].k, entries[i].v) IN
         IF r.ok THEN ParseFields(entries, i + 1, r.v) ELSE r

\* AttestationVerifier::parse_attestation_document
parse_attestation_document(cbor) ==
    IF cbor.t # "Map"
    THEN AVF(M("Invalid attestation document format"))
    ELSE ParseFields(cbor.v, 1, EmptyDocument)

\* extract_ec_point on the public-key info of a key whose uncompressed
\* point has key.size bytes.  The first loop finds the BIT STRING and
\* returns the whole point when it has expected_size bytes.  Otherwise the
\* fallback, taken when the structure is at least expected_size long,
\* returns expected_size bytes cut at a guessed offset, which are not the
\* key's point (whole = FALSE); a shorter structure is an error.
extract_ec_point(key, expected_size) ==
    IF key.size = expected_size
    THEN Ok([id |-> key.id, whole |-> TRUE])
    ELSE IF key.size > expected_size
    THEN Ok([id |-> key.id, whole |-> FALSE])
    ELSE AVF(M("Failed to extract EC public key point"))

\* "Signature1"
Signature1 == <<83, 105, 103, 110, 97, 116, 117, 114, 101, 49>>

\* create_sig_structure
create_sig_structure(protected, payload) ==
    Ok(CborBytes(CArray(<<CText(Signature1), CBytes(protected),
                          CBytes(RawBytes(<<>>)), CBytes(payload)>>)))

\* verify_cert_signature as it would be if a certificate of an algorithm
\* it does not know were let through.
verify_cert_signatureSkipsUnknown(cert_der, issuer) ==
    LET parsed == from_der(cert_der) IN
    IF ~parsed.ok
    THEN AVF(M("Failed to parse certificate for signature verification"))
    ELSE IF parsed.v.alg # EcdsaSha384 /\ parsed.v.alg # EcdsaSha256
    THEN Ok(TRUE)
    ELSE IF parsed.v.signer = issuer.key.id /\ issuer.key.size = P384PointLen
    THEN Ok(TRUE)
    ELSE AVF(M("Certificate signature verification failed"))

\* AttestationVerifier::verify_cert_signature(cert_der, issuer); the TBS
\* signature of a certificate is Sign(cert.signer, its TBS bytes).
verify_cert_signature(cert_der, issuer) ==
    LET parsed == from_der(cert_der) IN
    IF ~parsed.ok
    THEN AVF(M("Failed to parse certificate for signature verification"))
    ELSE LET cert == parsed.v
             sig_oid == cert.alg
         IN
         IF sig_oid # EcdsaSha384 /\ sig_oid # EcdsaSha256
         THEN Ok(FALSE)
         ELSE LET ec_point ==
                      IF sig_oid = EcdsaSha384
                      THEN extract_ec_point(issuer.key, P384PointLen)
                      ELSE extract_ec_point(issuer.key, P256PointLen)
              IN
              IF ~ec_point.ok THEN ec_point
              ELSE IF ec_point.v.whole /\ cert.signer = ec_point.v.id
              THEN Ok(TRUE)
              ELSE AVF(M("Certificate signature verification failed"))

\* ParseChain as it would be if no validity window were looked at.
RECURSIVE ParseChainAnyTime(_, _, _)
ParseChainAnyTime(cabundle, i, certs) ==
    IF i > Len(cabundle) THEN Ok(certs)
    ELSE LET parsed == from_der(cabundle[i]) IN
         IF ~parsed.ok
         THEN AVF(MAt("Failed to parse certificate", i - 1))
         ELSE ParseChainAnyTime(cabundle, i + 1, Append(certs, parsed.v))

\* Step 2 of verify_certificate_chain: parse every bundled certificate and
\* check its validity window, from certificate i on (0-based index i - 1).
RECURSIVE ParseChain(_, _, _)
ParseChain(cabundle, i, certs) ==
    IF i > Len(cabundle) THEN Ok(certs)
    ELSE LET parsed == from_der(cabundle[i]) IN
         IF ~parsed.ok
         THEN AVF(MAt("Failed to parse certificate", i - 1))
         ELSE IF ~parsed.v.valid
         THEN AVF(MAt("Certificate is expired or not yet valid", i - 1))
         ELSE ParseChain(cabundle, i + 1, Append(certs, parsed.v))

\* VerifyLinks as it would be if only the signatures were checked.
RECURSIVE VerifyLinksSignatureOnly(_, _, _)
VerifyLinksSignatureOnly(cabundle, certs, i) ==
    IF i > Len(certs) THEN Ok(TRUE)
    ELSE LET r == verify_cert_signature(cabundle[i], certs[i - 1]) IN
         IF ~r.ok THEN r
         ELSE IF ~r.v
         THEN AVF(MAt("Certificate signature verification failed (not signed by previous)", i - 1))
         ELSE VerifyLinksSignatureOnly(cabundle, certs, i + 1)

\* Step 3 of verify_certificate_chain: the loop `for i in 1..certs.len()`,
\* from the certificate at 1-based position i on.
RECURSIVE VerifyLinks(_, _, _)
VerifyLinks(cabundle, certs, i) ==
    IF i > Len(certs) THEN Ok(TRUE)
    ELSE LET cert == certs[i]
             issuer == certs[i - 1]
         IN
         IF cert.issuer # issuer.subject
         THEN AVF(MAt("Certificate issuer doesn't match previous subject - chain is broken", i - 1))
         ELSE LET r == verify_cert_signature(cabundle[i], issuer) IN
              IF ~r.ok THEN r
              ELSE IF ~r.v
              THEN AVF(MAt("Certificate signature verification failed (not signed by previous)", i - 1))
              ELSE VerifyLinks(cabundle, certs, i + 1)

\* The bypass condition of verify_certificate_chain and verify_signature.
\* DebugBypass as it would be if the module id alone decided.
DebugBypassAnyBuild(self, doc) ==
    starts_with(doc.module_id, MockPrefix)

DebugBypass(self, doc) ==
    self.allow_debug /\ starts_with(doc.module_id, MockPrefix)

\* Steps 2 and 3 of verify_certificate_chain (lines 319-402), on a
\* bundle that is not empty.
VerifyChainSteps(doc) ==
    LET parsed == ParseChain(doc.cabundle, 1, <<>>) IN
    IF ~parsed.ok THEN parsed
    ELSE LET certs == parsed.v
             leaf == from_der(doc.certificate)
         IN
         IF ~leaf.ok
         THEN AVF(M("Failed to parse leaf certificate"))
         ELSE IF ~leaf.v.valid
         THEN AVF(M("Leaf certificate is expired or not yet valid"))
         ELSE LET links == VerifyLinks(doc.cabundle, certs, 2) IN
              IF ~links.ok THEN links
              ELSE LET last_cert == certs[Len(certs)] IN
                   IF leaf.v.issuer # last_cert.subject
                   THEN AVF(M("Leaf certificate issuer doesn't match last certificate in chain"))
                   ELSE LET r == verify_cert_signature(doc.certificate, last_cert) IN
                        IF ~r.ok THEN r
                        ELSE IF ~r.v
                        THEN AVF(M("Leaf certificate signature verification failed"))
                        ELSE Ok(TRUE)

\* verify_certificate_chain as it would be if the first certificate were
\* not compared with the pinned root.
verify_certificate_chainUnpinned(self, doc) ==
    IF DebugBypass(self, doc) THEN Ok(TRUE)
    ELSE IF doc.cabundle = <<>>
    THEN AVF(M("Certificate bundle is empty"))
    ELSE VerifyChainSteps(doc)

\* AttestationVerifier::verify_certificate_chain
verify_certificate_chain(self, doc) ==
    IF DebugBypass(self, doc) THEN Ok(TRUE)
    ELSE IF doc.cabundle = <<>>
    THEN AVF(M("Certificate bundle is empty"))
    ELSE IF doc.cabundle[1] # AWS_NITRO_ROOT_CERT
    THEN AVF(M("First certificate does not match AWS Nitro root certificate"))
    ELSE VerifyChainSteps(doc)

\* AttestationVerifier::verify_signature
verify_signature(self, protected, payload, signature_bytes, doc) ==
    IF DebugBypass(self, doc) THEN Ok(TRUE)
    ELSE LET cert == from_der(doc.certificate) IN
         IF ~cert.ok
         THEN AVF(M("Failed to parse leaf certificate"))
         ELSE LET public_key_bytes == extract_ec_point(cert.v.key, P384PointLen) IN
              IF ~public_key_bytes.ok THEN public_key_bytes
              ELSE LET sig_structure == create_sig_structure(protected, payload) IN
                   IF ~sig_structure.ok THEN sig_structure
                   ELSE IF /\ public_key_bytes.v.whole
                           /\ signature_bytes.enc = "sig"
                           /\ ring_verify(public_key_bytes.v.id, sig_structure.v,
                                          signature_bytes.x)
                   THEN Ok(TRUE)
                   ELSE AVF(M("Signature verification failed"))

\* verify_pcrs as it would be if an expected index the document lacks
\* were passed over.
verify_pcrsPresentOnly(doc, expected) ==
    { AVF(MAt("PCR mismatch", i)) :
        i \in {j \in DOMAIN expected :
                  j \in DOMAIN doc.pcrs /\ doc.pcrs[j] # expected[j]} }

\* AttestationVerifier::verify_pcrs iterates a HashMap, whose order is not
\* specified: the error returned is that of any failing expected index.
\* The set of errors it can return (empty when the check passes).
verify_pcrs(doc, expected) ==
    { AVF(MAt("PCR missing", i)) :
        i \in {j \in DOMAIN expected : j \notin DOMAIN doc.pcrs} }
    \cup
    { AVF(MAt("PCR mismatch", i)) :
        i \in {j \in DOMAIN expected :
                  j \in DOMAIN doc.pcrs /\ doc.pcrs[j] # expected[j]} }

\* verify_attestation_document, lines 54-105: decode the envelope.
DecodeEnvelope(document_b64) ==
    LET document_bytes == Base64Decode(document_b64) IN
    IF ~document_bytes.ok THEN document_bytes
    ELSE LET cbor_value == cbor_from_slice(document_bytes.v) IN
    IF ~cbor_value.ok THEN cbor_value
    ELSE IF cbor_value.v.t # "Array"
    THEN AVF(M("Invalid COSE_Sign1 structure"))
    ELSE LET cose_sign1 == cbor_value.v.v IN
    IF Len(cose_sign1) # 4
    THEN AVF(M("COSE_Sign1 must have 4 elements"))
    ELSE IF cose_sign1[1].t # "Bytes"
    THEN AVF(M("Invalid protected header"))
    ELSE IF cose_sign1[3].t # "Bytes"
    THEN AVF(M("Invalid payload"))
    ELSE IF cose_sign1[4].t # "Bytes"
    THEN AVF(M("Invalid signature"))
    ELSE LET doc_cbor == cbor_from_slice(cose_sign1[3].v) IN
    IF ~doc_cbor.ok THEN doc_cbor
    ELSE LET doc == parse_attestation_document(doc_cbor.v) IN
    IF ~doc.ok THEN doc
    ELSE Ok([protected |-> cose_sign1[1].v, payload |-> cose_sign1[3].v,
             signature |-> cose_sign1[4].v, doc |-> doc.v])

\* NonceCheck as it would be if a document without a nonce were let through.
NonceCheckOptional(doc, expected_nonce) ==
    IF doc.nonce.some
    THEN LET nonce_str == from_utf8(doc.nonce.v) IN
         IF ~nonce_str.ok
         THEN AVF(M("Invalid nonce encoding"))
         ELSE IF nonce_str.v # expected_nonce
         THEN AVF(M("Nonce mismatch"))
         ELSE Ok(TRUE)
    ELSE Ok(TRUE)

\* verify_attestation_document, lines 107-122: verify the nonce.
NonceCheck(doc, expected_nonce) ==
    IF doc.nonce.some
    THEN LET nonce_str == from_utf8(doc.nonce.v) IN
         IF ~nonce_str.ok
         THEN AVF(M("Invalid nonce encoding"))
         ELSE IF nonce_str.v # expected_nonce
         THEN AVF(M("Nonce mismatch"))
         ELSE Ok(TRUE)
    ELSE AVF(M("Missing nonce in attestation document"))

\* The length of an x25519 key, a shared secret and a session key.
KeyLen == 32

RECURSIVE PowMod(_, _)
PowMod(u, k) == IF k = 0 THEN 1 ELSE (u * PowMod(u, k - 1)) % 251

(***************************************************************************)
(* The envelopes and verifiers the verifier is run on.                     *)
(***************************************************************************)
N1 == <<78, 49>>
N2 == <<78, 50>>
BadUtf8 == <<78, 255>>
ModMock == MockPrefix \o <<109>>
ModProd == <<105, 45, 49>>
ModNear == <<109, 111, 99, 107>>
AttackerKey == Key(9, P384PointLen)

InterCert == Cert("inter", "root", InterKey, RootKey.id, EcdsaSha384, TRUE)
LeafCert == Cert("leaf", "inter", LeafKey, InterKey.id, EcdsaSha384, TRUE)
ZonalKey == Key(4, P384PointLen)
ZonalCert == Cert("zonal", "inter", ZonalKey, InterKey.id, EcdsaSha384, TRUE)
\* The chains that lead from the pinned root to a leaf holding LeafKey.
GenuineChains == {"good", "rootonly", "deep"}

\* [cabundle, certificate] for each kind of chain.
ChainKinds ==
    {"good", "empty", "wrongroot", "brokenlink", "badlinksig", "expired",
     "forgedleaf"}
\* Further chains, met with an otherwise valid envelope: a bundle of the
\* root alone; one of three certificates, sound, with the issuer or with
\* the algorithm of the third wrong; a link with an unsupported algorithm, with the P-256
\* algorithm under a P-384 issuer, with a wrong issuer and a wrong signer;
\* a leaf with a wrong issuer, an unsupported algorithm, a P-256 key, or
\* bytes that are no certificate; an empty bundle with such a leaf; a
\* bundle whose first item is no certificate, or is a root of the pinned
\* root's names under another key, with a chain sound below it; a sound
\* chain whose leaf, or whose third certificate, is outside its validity
\* window; a bundle whose second item is no certificate.
LinkKinds ==
    {"rootonly", "deep", "deepbroken", "deepalg", "linkalg", "linkp256", "brokensigned", "leafissuer",
     "leafalg", "leafp256key", "leafnotder", "emptynotder", "notderfirst",
     "selfsigned", "leafexpired", "deepexpired", "linknotder"}
ChainOf(kind) ==
    CASE kind = "good" ->
           [cabundle |-> <<DerBytes(RootCert), DerBytes(InterCert)>>,
            certificate |-> DerBytes(LeafCert)]
      [] kind = "empty" ->
           [cabundle |-> <<>>, certificate |-> DerBytes(LeafCert)]
      [] kind = "wrongroot" ->
           [cabundle |-> <<DerBytes(Cert("root", "root", AttackerKey,
                                         AttackerKey.id, EcdsaSha384, TRUE))>>,
            certificate |-> DerBytes(Cert("leaf", "root", LeafKey,
                                          AttackerKey.id, EcdsaSha384, TRUE))]
      [] kind = "brokenlink" ->
           [cabundle |-> <<DerBytes(RootCert),
                           DerBytes([InterCert EXCEPT !.issuer = "other"])>>,
            certificate |-> DerBytes(LeafCert)]
      [] kind = "badlinksig" ->
           [cabundle |-> <<DerBytes(RootCert),
                           DerBytes([InterCert EXCEPT !.signer = AttackerKey.id])>>,
            certificate |-> DerBytes(LeafCert)]
      [] kind = "expired" ->
           [cabundle |-> <<DerBytes(RootCert),
                           DerBytes([InterCert EXCEPT !.valid = FALSE])>>,
            certificate |-> DerBytes(LeafCert)]
      [] kind = "forgedleaf" ->
           [cabundle |-> <<DerBytes(RootCert), DerBytes(InterCert)>>,
            certificate |-> DerBytes([LeafCert EXCEPT !.key = AttackerKey,
                                                      !.signer = AttackerKey.id])]
      [] kind = "rootonly" ->
           [cabundle |-> <<DerBytes(RootCert)>>,
            certificate |-> DerBytes([LeafCert EXCEPT !.issuer = "root",
                                                      !.signer = RootKey.id])]
      [] kind = "deep" ->
           [cabundle |-> <<DerBytes(RootCert), DerBytes(InterCert),
                           DerBytes(ZonalCert)>>,
            certificate |-> DerBytes([LeafCert EXCEPT !.issuer = "zonal",
                                                      !.signer = ZonalKey.id])]
      [] kind = "deepbroken" ->
           [cabundle |-> <<DerBytes(RootCert), DerBytes(InterCert),
                           DerBytes([ZonalCert EXCEPT !.issuer = "root"])>>,
            certificate |-> DerBytes([LeafCert EXCEPT !.issuer = "zonal",
                                                      !.signer = ZonalKey.id])]
      [] kind = "deepalg" ->
           [cabundle |-> <<DerBytes(RootCert), DerBytes(InterCert),
                           DerBytes([ZonalCert EXCEPT !.alg = Sha256WithRsa])>>,
            certificate |-> DerBytes([LeafCert EXCEPT !.issuer = "zonal",
                                                      !.signer = ZonalKey.id])]
      [] kind = "linkalg" ->
           [cabundle |-> <<DerBytes(RootCert),
                           DerBytes([InterCert EXCEPT !.alg = Sha256WithRsa])>>,
            certificate |-> DerBytes(LeafCert)]
      [] kind = "linkp256" ->
           [cabundle |-> <<DerBytes(RootCert),
                           DerBytes([InterCert EXCEPT !.alg = EcdsaSha256])>>,
            certificate |-> DerBytes(LeafCert)]
      [] kind = "brokensigned" ->
           [cabundle |-> <<DerBytes(RootCert),
                           DerBytes([InterCert EXCEPT !.issuer = "other",
                                                      !.signer = AttackerKey.id])>>,
            certificate |-> DerBytes(LeafCert)]
      [] kind = "leafissuer" ->
           [cabundle |-> <<DerBytes(RootCert), DerBytes(InterCert)>>,
            certificate |-> DerBytes([LeafCert EXCEPT !.issuer = "other"])]
      [] kind = "leafalg" ->
           [cabundle |-> <<DerBytes(RootCert), DerBytes(InterCert)>>,
            certificate |-> DerBytes([LeafCert EXCEPT !.alg = Sha256WithRsa])]
      [] kind = "leafp256key" ->
           [cabundle |-> <<DerBytes(RootCert), DerBytes(InterCert)>>,
            certificate |-> DerBytes([LeafCert EXCEPT
                                        !.key = Key(LeafKey.id, P256PointLen)])]
      [] kind = "leafnotder" ->
           [cabundle |-> <<DerBytes(RootCert), DerBytes(InterCert)>>,
            certificate |-> Garbage]
      [] kind = "emptynotder" ->
           [cabundle |-> <<>>, certificate |-> Garbage]
      [] kind = "notderfirst" ->
           [cabundle |-> <<Garbage, DerBytes(InterCert)>>,
            certificate |-> DerBytes(LeafCert)]
      [] kind = "leafexpired" ->
           [cabundle |-> <<DerBytes(RootCert), DerBytes(InterCert)>>,
            certificate |-> DerBytes([LeafCert EXCEPT !.valid = FALSE])]
      [] kind = "deepexpired" ->
           [cabundle |-> <<DerBytes(RootCert), DerBytes(InterCert),
                           DerBytes([ZonalCert EXCEPT !.valid = FALSE])>>,
            certificate |-> DerBytes([LeafCert EXCEPT !.issuer = "zonal",
                                                      !.signer = ZonalKey.id])]
      [] kind = "linknotder" ->
           [cabundle |-> <<DerBytes(RootCert), Garbage>>,
            certificate |-> DerBytes(LeafCert)]
      [] kind = "selfsigned" ->
           [cabundle |-> <<DerBytes(Cert("root", "root", AttackerKey,
                                         AttackerKey.id, EcdsaSha384, TRUE)),
                           DerBytes([InterCert EXCEPT !.signer = AttackerKey.id])>>,
            certificate |-> DerBytes(LeafCert)]

\* The "nonce" entry of a payload, for each kind of nonce field.
NonceKinds == {"absent", "N1", "N2", "badutf8", "text"}
NonceEntry(kind) ==
    CASE kind = "absent" -> <<>>
      [] kind = "N1" -> <<Entry("nonce", CBytes(RawBytes(N1)))>>
      [] kind = "N2" -> <<Entry("nonce", CBytes(RawBytes(N2)))>>
      [] kind = "badutf8" -> <<Entry("nonce", CBytes(RawBytes(BadUtf8)))>>
      [] kind = "text" -> <<Entry("nonce", CText(N1))>>

PcrA == RawBytes(<<0, 0>>)
PcrB == RawBytes(<<0, 7>>)
PcrKinds == {"one", "two"}
PcrEntries(kind) ==
    IF kind = "one"
    THEN <<Entry(CInt(0), CBytes(PcrA))>>
    ELSE <<Entry(CInt(0), CBytes(PcrA)), Entry(CInt(1), CBytes(PcrB))>>

\* The "public_key" entry of a payload: none, the exchange key of
\* enclave secret 2 ("pk") or 3 ("pk2"), or a key of 16 bytes ("short").
PkKinds == {"absent", "pk", "pk2", "short"}
PkEntry(kind) ==
    CASE kind = "absent" -> <<>>
      [] kind = "pk" ->
           <<Entry("public_key", CBytes(RawBytes(Fill(KeyLen, PowMod(9, 2)))))>>
      [] kind = "pk2" ->
           <<Entry("public_key", CBytes(RawBytes(Fill(KeyLen, PowMod(9, 3)))))>>
      [] kind = "short" ->
           <<Entry("public_key", CBytes(RawBytes(Fill(16, PowMod(9, 2)))))>>

\* The payload of an envelope: the CBOR map of an attestation document.
\* A fault in p.fault damages the payload: a negative timestamp or PCR
\* index, a PCR index that is no integer, a public_key or user_data that
\* is no byte string; "userdata" and "unknownkey" are no damage (a
\* user_data of bytes, a key the parser does not know).
Payload(p) ==
    CborBytes(CMap(
        <<Entry("pcrs", CMap(PcrEntries(p.pcrs)
               \o (CASE p.fault = "negpcr" -> <<Entry(CInt(-1), CBytes(PcrB))>>
                      [] p.fault = "textpcr" -> <<Entry(CText(<<49>>), CBytes(PcrB))>>
                      [] OTHER -> <<>>)))>>
        \o NonceEntry(p.nonce)
        \o (IF p.fault = "unknownkey"
            THEN <<Entry("extra", CBytes(RawBytes(N2)))>> ELSE <<>>)
        \o <<Entry("digest", CText(<<83>>)),
             Entry("cabundle",
                   CArray([i \in 1..Len(ChainOf(p.chain).cabundle) |->
                              CBytes(ChainOf(p.chain).cabundle[i])])),
             Entry("module_id", CText(p.mod)),
             Entry("timestamp",
                   CInt(IF p.fault = "negtimestamp" THEN -5 ELSE 5))>>
        \o (IF p.fault = "pktext"
            THEN <<Entry("public_key", CText(N1))>> ELSE PkEntry(p.pk))
        \o (CASE p.fault = "udtext" -> <<Entry("user_data", CInt(4))>>
              [] p.fault = "userdata" ->
                   <<Entry("user_data", CBytes(RawBytes(<<4>>)))>>
              [] OTHER -> <<>>)
        \o <<Entry("certificate", CBytes(ChainOf(p.chain).certificate))>>))

Protected == RawBytes(<<1>>)

\* The signature field of an envelope, for each kind of signature: the
\* leaf key's signature over the envelope's own signing input ("good"),
\* that signature with byte i changed (SigFlip(i), i in 1..SigLen),
\* another key's signature ("forged"), or no signature at all ("junk").
SigGood == [kind |-> "good", at |-> 0]
SigFlip(i) == [kind |-> "flip", at |-> i]
SigKinds ==
    {SigGood, [kind |-> "forged", at |-> 0], [kind |-> "junk", at |-> 0]}
    \cup { SigFlip(i) : i \in 1..SigLen }
SignatureOf(kind, payload) ==
    LET msg == create_sig_structure(Protected, payload).v
        good == Sign(LeafKey.id, msg)
    IN
    CASE kind.kind = "good" -> SigBytes(good)
      [] kind.kind = "forged" -> SigBytes(Sign(AttackerKey.id, msg))
      [] kind.kind = "junk" -> Garbage
      [] kind.kind = "flip" -> SigBytes(FlipByte(good, kind.at))

\* The COSE_Sign1 envelope with the given fields, base64-encoded; `fault`
\* damages its structure.
FaultKinds ==
    {"ok", "badb64", "badcbor", "notarray", "three", "protected", "payload",
     "signature", "payloadcbor", "payloadmap",
     "five", "unprotected", "negtimestamp", "negpcr", "textpcr", "pktext",
     "udtext", "userdata", "unknownkey"}
Envelope(p) ==
    LET protected == CBytes(Protected)
        unprotected == CMap(<<>>)
        payload == CBytes(Payload(p))
        signature == CBytes(SignatureOf(p.sig, payload.v))
        good == <<protected, unprotected, payload, signature>>
    IN
    CASE p.fault = "ok" -> B64(CborBytes(CArray(good)))
      [] p.fault = "badb64" -> BadB64
      [] p.fault = "badcbor" -> B64(Garbage)
      [] p.fault = "notarray" -> B64(CborBytes(CMap(<<>>)))
      [] p.fault = "three" -> B64(CborBytes(CArray(SubSeq(good, 1, 3))))
      [] p.fault = "protected" ->
           B64(CborBytes(CArray([good EXCEPT ![1] = CNull])))
      [] p.fault = "payload" ->
           B64(CborBytes(CArray([good EXCEPT ![3] = CNull])))
      [] p.fault = "signature" ->
           B64(CborBytes(CArray([good EXCEPT ![4] = CNull])))
      [] p.fault = "payloadcbor" ->
           B64(CborBytes(CArray([good EXCEPT ![3] = CBytes(Garbage)])))
      [] p.fault = "payloadmap" ->
           B64(CborBytes(CArray([good EXCEPT
                                   ![3] = CBytes(CborBytes(CArray(<<>>)))])))
      [] p.fault = "five" -> B64(CborBytes(CArray(Append(good, CNull))))
      [] p.fault = "unprotected" ->
           B64(CborBytes(CArray([good EXCEPT ![2] = CInt(0)])))
      [] OTHER -> B64(CborBytes(CArray(good)))

Params(fault, nonce, mod, chain, sig, pk, pcrs) ==
    [fault |-> fault, nonce |-> nonce, mod |-> mod, chain |-> chain,
     sig |-> sig, pk |-> pk, pcrs |-> pcrs]

\* A valid envelope for nonce N1, and the inputs that differ from it.
GoodParams == Params("ok", "N1", ModProd, "good", SigGood, "pk", "one")
EnvelopeParams ==
    { Params("ok", n, m, c, s, k, "one") :
        n \in NonceKinds, m \in {ModMock, ModProd, ModNear},
        c \in ChainKinds, s \in SigKinds, k \in {"absent", "pk"} }
    \cup { [GoodParams EXCEPT !.pcrs = "two", !.mod = m] : m \in {ModMock, ModProd} }
    \cup { [GoodParams EXCEPT !.fault = f, !.nonce = n] :
             f \in FaultKinds, n \in {"N1", "text"} }
    \cup { [GoodParams EXCEPT !.chain = c, !.mod = m] :
             c \in LinkKinds, m \in {ModMock, ModProd} }

ExpectedPcrs ==
    {None, Some(0 :> PcrA), Some(0 :> PcrB), Some((0 :> PcrA) @@ (1 :> PcrB)),
     Some((0 :> PcrB) @@ (1 :> PcrB))}
Verifiers ==
    { AttestationVerifier(e, d) : e \in ExpectedPcrs, d \in BOOLEAN }

(***************************************************************************)
(* crypto.rs.  x25519 is modelled by Diffie-Hellman in the integers mod    *)
(* 251 with base 9; a 32-byte key is 32 copies of one such value.          *)
(* ChaCha20-Poly1305 is modelled by a byte-wise additive stream and a tag  *)
(* of 16 bytes that depends on key, nonce and every ciphertext byte.       *)
(***************************************************************************)
NonceLen == 12

\* generate_random_bytes as it would be if every call gave the same bytes.
generate_random_bytesFixed(n, k) == Fill(n, 0)

\* generate_random_bytes::<n>(), the k-th draw of this process: the
\* operating system's random source is taken not to repeat itself.
generate_random_bytes(n, k) == Fill(n, k)

\* PublicKey::from(&secret)
x25519_public(secret) == Fill(KeyLen, PowMod(9, secret))

\* StaticSecret::diffie_hellman, perform_static_key_exchange
perform_static_key_exchange(secret, their_public) ==
    Fill(KeyLen, PowMod(their_public[1], secret))

\* derive_shared_secret as it would be if it mixed in the caller's own
\* public key.
derive_shared_secretOwnKey(secret, their_public) ==
    Fill(KeyLen, PowMod(x25519_public(secret)[1], secret))

\* derive_shared_secret
derive_shared_secret(secret, their_public) ==
    Fill(KeyLen, PowMod(their_public[1], secret))

RECURSIVE SumBytes(_, _)
SumBytes(bytes, i) ==
    IF i > Len(bytes) THEN 0 ELSE (bytes[i] + SumBytes(bytes, i + 1)) % 256

AeadTag(key, nonce, ct) ==
    Fill(16, (7 * key[1] + 3 * nonce[1] + SumBytes(ct, 1)) % 256)

\* Aead::encrypt: ciphertext followed by the tag
aead_encrypt(key, nonce, plaintext) ==
    LET ct == [i \in 1..Len(plaintext) |->
                  (plaintext[i] + key[1] + nonce[1]) % 256]
    IN ct \o AeadTag(key, nonce, ct)

\* aead_decrypt as it would be if the tag were not compared.
aead_decryptUnchecked(key, nonce, ciphertext) ==
    IF Len(ciphertext) < 16 THEN None
    ELSE LET ct == SubSeq(ciphertext, 1, Len(ciphertext) - 16) IN
         Some([i \in 1..Len(ct) |-> (ct[i] + 512 - key[1] - nonce[1]) % 256])

\* Aead::decrypt: the plaintext, or a failure when the tag does not match
aead_decrypt(key, nonce, ciphertext) ==
    IF Len(ciphertext) < 16 THEN None
    ELSE LET ct == SubSeq(ciphertext, 1, Len(ciphertext) - 16)
             tag == SubSeq(ciphertext, Len(ciphertext) - 15, Len(ciphertext))
         IN
         IF tag # AeadTag(key, nonce, ct) THEN None
         ELSE Some([i \in 1..Len(ct) |->
                       (ct[i] + 512 - key[1] - nonce[1]) % 256])

\* encrypt_data as it would be if the nonce were not prepended.
encrypt_dataWithoutNonce(key, nonce_bytes, plaintext) ==
    Ok(aead_encrypt(key, nonce_bytes, plaintext))

\* encrypt_data with the 12 random nonce bytes given
encrypt_data(key, nonce_bytes, plaintext) ==
    Ok(nonce_bytes \o aead_encrypt(key, nonce_bytes, plaintext))

\* decrypt_data
decrypt_data(key, encrypted_data) ==
    IF Len(encrypted_data) < NonceLen
    THEN Err("Decryption", M("Encrypted data too short"))
    ELSE LET nonce_bytes == SubSeq(encrypted_data, 1, NonceLen)
             ciphertext == SubSeq(encrypted_data, NonceLen + 1, Len(encrypted_data))
             r == aead_decrypt(key, nonce_bytes, ciphertext)
         IN
         IF r.some THEN Ok(r.v)
         ELSE Err("Decryption", M("Decryption failed"))

\* decrypt_session_key
decrypt_session_key(shared_secret, encrypted_data) ==
    LET encrypted == Base64Decode(encrypted_data) IN
    IF ~encrypted.ok THEN encrypted
    ELSE IF Len(encrypted.v) < NonceLen
    THEN Err("Decryption", M("Encrypted session key too short"))
    ELSE LET nonce_bytes == SubSeq(encrypted.v, 1, NonceLen)
             ciphertext == SubSeq(encrypted.v, NonceLen + 1, Len(encrypted.v))
             session_key_vec == aead_decrypt(shared_secret, nonce_bytes, ciphertext)
         IN
         IF ~session_key_vec.some
         THEN Err("Decryption", M("Failed to decrypt session key"))
         ELSE IF Len(session_key_vec.v) # KeyLen
         THEN Err("Decryption", M("Invalid session key length"))
         ELSE Ok(session_key_vec.v)

\* Uuid::parse_str: a wire string either is the text of a UUID or not.
UuidStr(n) == [valid |-> TRUE, x |-> n]
BadUuidStr == [valid |-> FALSE]
uuid_parse_str(s) ==
    IF s.valid THEN Ok(s.x) ELSE Err("Uuid", M("invalid uuid"))

(***************************************************************************)
(* State.                                                                  *)
(*   SpecVerify: one run of verify_attestation_document                    *)
(*     verifier       the AttestationVerifier (self)                       *)
(*     vinput         [params, expected_nonce]: the envelope's fields and  *)
(*                    the expected nonce; the argument document_b64 is     *)
(*                    Envelope(vinput.params)                              *)
(*     vstage         the stage about to run, or Verified / Failed         *)
(*     vran           the stages run so far, in order                      *)
(*     vdecoded       protected, payload, signature and doc, once decoded  *)
(*     vresult        the value returned, once the run has ended           *)
(*   Spec: one OpenSecretClient and the handshakes running on it           *)
(*     base_url       the client's field                                   *)
(*     use_mock_attestation   the client's field, fixed at construction    *)
(*     allow_debug    whether the build enables feature "mock-attestation" *)
(*     session        SessionManager.session: Option<SessionState>         *)
(*     tokens         SessionManager.tokens: Option<TokenPair>             *)
(*     server_public_key      the client's field                           *)
(*     started        the number of handshakes started so far              *)
(*     pc[h]          where handshake task h is                            *)
(*     nonce[h]       its nonce                                            *)
(*     att[h]         the fields of the envelope its attestation request   *)
(*                    was answered with                                    *)
(*     secret[h]      its x25519 secret                                    *)
(*     kx[h]          what its key-exchange request was answered with      *)
(*     result[h]      what perform_attestation_handshake returned          *)
(*     requests[h]    the nonce it put in its attestation request, the     *)
(*                    nonce it gave the verifier, and the nonce it put in  *)
(*                    its key-exchange request                             *)
(*     drawn          the nonces drawn so far, in order                    *)
(*   SpecShared, SpecRead: SpecApi with one more caller on the client      *)
(*     other_pc       where another task's logout is                       *)
(*     reader_pc      where a task that reads the store is                 *)
(*     seen           what that task's get_session and get_tokens          *)
(*                    returned, and whether clear_all was under way        *)
(*   SpecPoint: one call of extract_ec_point                               *)
(*     pubkey_bytes, expected_size   its arguments                         *)
(*     ec_point       what it returned, once it has                        *)
(***************************************************************************)
VARIABLES verifier, vinput, vstage, vran, vdecoded, vresult
VARIABLES base_url, use_mock_attestation, allow_debug, session, tokens,
          server_public_key, started, pc, nonce, att, secret, kx, result
VARIABLES slot, lock, tpc, tcall, todo, tbuf, got, written, calls
VARIABLES sealing, seals, opening, dh
VARIABLES api_pc, api_call, api_result, api_calls
VARIABLES requests, drawn
VARIABLES pubkey_bytes, expected_size, ec_point
VARIABLES other_pc, reader_pc, seen

verifyVars == <<verifier, vinput, vstage, vran, vdecoded, vresult>>
clientVars == <<base_url, use_mock_attestation, allow_debug, session, tokens,
                server_public_key, started, pc, nonce, att, secret, kx, result>>
storeVars == <<slot, lock, tpc, tcall, todo, tbuf, got, written, calls>>
cryptoVars == <<sealing, seals, opening, dh>>
apiVars == <<api_pc, api_call, api_result, api_calls>>
wireVars == <<requests, drawn>>
pointVars == <<pubkey_bytes, expected_size, ec_point>>
sideVars == <<other_pc, reader_pc, seen>>
vars == <<verifyVars, clientVars, storeVars, cryptoVars, apiVars, wireVars, pointVars, sideVars>>

Tasks == {1, 2}

NotRun == [done |-> FALSE]
Returned(r) == [done |-> TRUE, r |-> r]

VerifyIdle ==
    /\ verifier = AttestationVerifier(None, FALSE)
    /\ vinput = [params |-> GoodParams, expected_nonce |-> N1]
    /\ vstage = "Idle"
    /\ vran = <<>>
    /\ vdecoded = None
    /\ vresult = NotRun

\* session.rs: the memory of SessionManager.session, an
\* Option<SessionState>, field by field, and the state of its RwLock.
Threads == {1, 2}
StoreFields == {"some", "session_id", "session_key"}
EmptySlot == [some |-> FALSE, session_id |-> 0, session_key |-> Fill(KeyLen, 0)]
Unlocked == [writer |-> 0, readers |-> {}]

\* SessionManager::new (session.rs 12-17) with no call under way.
StoreNew ==
    /\ slot = EmptySlot
    /\ lock = Unlocked
    /\ tpc = [t \in Threads |-> "idle"]
    /\ tcall = [t \in Threads |-> [op |-> "get_session", arg |-> EmptySlot]]
    /\ todo = [t \in Threads |-> {}]
    /\ tbuf = [t \in Threads |-> EmptySlot]
    /\ got = [t \in Threads |-> NotRun]
    /\ written = {}
    /\ calls = 0

\* The record of the API call under way: the operation, the session it
\* snapshotted, the access token put in its Authorization header, the
\* encrypted body sent (empty when no request was sent), the session id
\* put in its x-session-id header.
NoCall ==
    [op |-> "none", snap |-> None, auth |-> None, body |-> <<>>,
     x_session_id |-> None]

\* No seal, open or key agreement has been made; no API call is under way.
CryptoIdle ==
    /\ sealing = [key |-> Fill(KeyLen, 1), plaintext |-> <<>>]
    /\ seals = <<>>
    /\ opening = [stage |-> "Idle"]
    /\ dh = NotRun
ApiIdle ==
    /\ api_pc = "idle"
    /\ api_call = NoCall
    /\ api_result = NotRun
    /\ api_calls = 0
\* No other task is in logout and none is reading the store.
NothingSeen == [session |-> None, tokens |-> None, clearing |-> FALSE]
SideIdle ==
    /\ other_pc = "idle"
    /\ reader_pc = "idle"
    /\ seen = NothingSeen
\* extract_ec_point has not been called.
PointIdle ==
    /\ pubkey_bytes = <<>>
    /\ expected_size = P384PointLen
    /\ ec_point = NotRun

\* str::contains
contains(s, pat) ==
    \E i \in 1..(Len(s) - Len(pat) + 1) : SubSeq(s, i, i + Len(pat) - 1) = pat
\* str::trim_end_matches('/')
RECURSIVE trim_end_slashes(_)
trim_end_slashes(s) ==
    IF s # <<>> /\ s[Len(s)] = 47 THEN trim_end_slashes(SubSeq(s, 1, Len(s) - 1))
    ELSE s

\* "localhost", "127.0.0.1"
Localhost ==
    <<108, 111, 99, 97, 108, 104, 111, 115, 116>>
Loopback ==
    <<49, 50, 55, 46, 48, 46, 48, 46, 49>>

\* OpenSecretClient::new as it would be if only the name "localhost" made
\* a client a mock-mode client.
OpenSecretClientNewByNameOnly(url) ==
    [base_url |-> trim_end_slashes(url),
     use_mock_attestation |-> contains(url, Localhost)]

\* OpenSecretClient::new(base_url): the fields it sets from the URL.
OpenSecretClientNew(url) ==
    [base_url |-> trim_end_slashes(url),
     use_mock_attestation |-> contains(url, Localhost) \/ contains(url, Loopback)]

\* "http://localhost:3000"
LocalUrl ==
    <<104, 116, 116, 112, 58, 47, 47, 108, 111, 99, 97, 108, 104, 111, 115,
      116, 58, 51, 48, 48, 48>>
\* "http://127.0.0.1:3000/"
LoopbackUrl ==
    <<104, 116, 116, 112, 58, 47, 47, 49, 50, 55, 46, 48, 46, 48, 46, 49,
      58, 51, 48, 48, 48, 47>>
\* "https://enclave.example"
RemoteUrl ==
    <<104, 116, 116, 112, 115, 58, 47, 47, 101, 110, 99, 108, 97, 118, 101,
      46, 101, 120, 97, 109, 112, 108, 101>>
\* "https://enclave.example/"
RemoteSlashUrl ==
    <<104, 116, 116, 112, 115, 58, 47, 47, 101, 110, 99, 108, 97, 118, 101,
      46, 101, 120, 97, 109, 112, 108, 101, 47>>
\* "http://127.0.0.2:3000"
NearLoopbackUrl ==
    <<104, 116, 116, 112, 58, 47, 47, 49, 50, 55, 46, 48, 46, 48, 46, 50,
      58, 51, 48, 48, 48>>
\* "http://LOCALHOST:3000"
UpperLocalUrl ==
    <<104, 116, 116, 112, 58, 47, 47, 76, 79, 67, 65, 76, 72, 79, 83, 84,
      58, 51, 48, 48, 48>>
\* "https://localhost.evil.example"
LocalLabelUrl ==
    <<104, 116, 116, 112, 115, 58, 47, 47, 108, 111, 99, 97, 108, 104, 111,
      115, 116, 46, 101, 118, 105, 108, 46, 101, 120, 97, 109, 112, 108,
      101>>
\* "https://evil.example/127.0.0.1"
LoopbackPathUrl ==
    <<104, 116, 116, 112, 115, 58, 47, 47, 101, 118, 105, 108, 46, 101,
      120, 97, 109, 112, 108, 101, 47, 49, 50, 55, 46, 48, 46, 48, 46, 49>>
\* The base URLs clients are built with.
BaseUrls ==
    {LocalUrl, LoopbackUrl, RemoteUrl, RemoteSlashUrl, NearLoopbackUrl,
     UpperLocalUrl, LocalLabelUrl, LoopbackPathUrl}

\* The client was built by OpenSecretClient::new(url).
Constructed(url) ==
    /\ base_url = OpenSecretClientNew(url).base_url
    /\ use_mock_attestation = OpenSecretClientNew(url).use_mock_attestation

\* A handshake that has sent nothing and verified nothing.
NoRequests == [fetch |-> None, expected |-> None, key_exchange |-> None]

\* A client on which nothing has run: the state OpenSecretClient::new
\* leaves, for either value of the mock flag and of the build feature.
ClientNew ==
    /\ session = None
    /\ tokens = None
    /\ server_public_key = None
    /\ started = 0
    /\ pc = [h \in Tasks |-> "idle"]
    /\ nonce = [h \in Tasks |-> <<>>]
    /\ att = [h \in Tasks |-> None]
    /\ secret = [h \in Tasks |-> 0]
    /\ kx = [h \in Tasks |-> None]
    /\ result = [h \in Tasks |-> NotRun]
    /\ requests = [h \in Tasks |-> NoRequests]
    /\ drawn = <<>>

ClientIdle ==
    /\ Constructed(RemoteUrl)
    /\ allow_debug = FALSE
    /\ ClientNew

VerifyInit ==
    /\ ClientIdle
    /\ StoreNew
    /\ CryptoIdle
    /\ ApiIdle
    /\ PointIdle
    /\ SideIdle
    /\ verifier \in Verifiers
    /\ vinput \in [params : EnvelopeParams, expected_nonce : {N1, N2}]
    /\ vstage = "Decode"
    /\ vran = <<>>
    /\ vdecoded = None
    /\ vresult = NotRun

\* A stage failed: `?` returns the error.
StageFails(stage, err) ==
    /\ vstage' = "Failed"
    /\ vran' = Append(vran, stage)
    /\ vresult' = Returned(err)

\* A stage passed: the run goes on with stage `next`.
StagePasses(stage, next) ==
    /\ vstage' = next
    /\ vran' = Append(vran, stage)
    /\ vresult' = IF next = "Verified" THEN Returned(Ok(vdecoded.v.doc))
                  ELSE vresult

\* StageDecode as it would be if the nonce check were left out.
StageDecodeSkipsNonce ==
    /\ vstage = "Decode"
    /\ LET r == DecodeEnvelope(Envelope(vinput.params)) IN
       IF r.ok
       THEN vdecoded' = Some(r.v) /\ StagePasses("Decode", "ChainValidate")
       ELSE vdecoded' = vdecoded /\ StageFails("Decode", r)
    /\ UNCHANGED <<verifier, vinput, clientVars, storeVars, cryptoVars, apiVars, wireVars, pointVars, sideVars>>

\* lines 54-105
StageDecode ==
    /\ vstage = "Decode"
    /\ LET r == DecodeEnvelope(Envelope(vinput.params)) IN
       IF r.ok
       THEN vdecoded' = Some(r.v) /\ StagePasses("Decode", "NonceCheck")
       ELSE vdecoded' = vdecoded /\ StageFails("Decode", r)
    /\ UNCHANGED <<verifier, vinput, clientVars, storeVars, cryptoVars, apiVars, wireVars, pointVars, sideVars>>

\* lines 107-122
StageNonceCheck ==
    /\ vstage = "NonceCheck"
    /\ LET r == NonceCheck(vdecoded.v.doc, vinput.expected_nonce) IN
       IF r.ok
       THEN StagePasses("NonceCheck", "ChainValidate")
       ELSE StageFails("NonceCheck", r)
    /\ UNCHANGED <<verifier, vinput, vdecoded, clientVars, storeVars, cryptoVars, apiVars, wireVars, pointVars, sideVars>>

\* lines 124-125
StageChainValidate ==
    /\ vstage = "ChainValidate"
    /\ LET r == verify_certificate_chain(verifier, vdecoded.v.doc) IN
       IF r.ok
       THEN StagePasses("ChainValidate", "SignatureVerify")
       ELSE StageFails("ChainValidate", r)
    /\ UNCHANGED <<verifier, vinput, vdecoded, clientVars, storeVars, cryptoVars, apiVars, wireVars, pointVars, sideVars>>

\* lines 127-128, and the test of expected_pcrs at line 131
StageSignatureVerify ==
    /\ vstage = "SignatureVerify"
    /\ LET d == vdecoded.v
           r == verify_signature(verifier, d.protected, d.payload, d.signature, d.doc)
       IN
       IF r.ok
       THEN StagePasses("SignatureVerify",
                        IF verifier.expected_pcrs.some THEN "MeasurementCheck"
                        ELSE "Verified")
       ELSE StageFails("SignatureVerify", r)
    /\ UNCHANGED <<verifier, vinput, vdecoded, clientVars, storeVars, cryptoVars, apiVars, wireVars, pointVars, sideVars>>

\* lines 131-135
StageMeasurementCheck ==
    /\ vstage = "MeasurementCheck"
    /\ LET errs == verify_pcrs(vdecoded.v.doc, verifier.expected_pcrs.v) IN
       IF errs = {}
       THEN StagePasses("MeasurementCheck", "Verified")
       ELSE \E r \in errs : StageFails("MeasurementCheck", r)
    /\ UNCHANGED <<verifier, vinput, vdecoded, clientVars, storeVars, cryptoVars, apiVars, wireVars, pointVars, sideVars>>

VerifyNext ==
    \/ StageDecode
    \/ StageNonceCheck
    \/ StageChainValidate
    \/ StageSignatureVerify
    \/ StageMeasurementCheck

SpecVerify == VerifyInit /\ [][VerifyNext]_vars

\* AttestationVerifier::verify_attestation_document as a function of its
\* arguments: the set of values it can return.
verify_attestation_document(self, document_b64, expected_nonce) ==
    LET dec == DecodeEnvelope(document_b64) IN
    IF ~dec.ok THEN {dec}
    ELSE LET d == dec.v
             nonce_ok == NonceCheck(d.doc, expected_nonce)
         IN
         IF ~nonce_ok.ok THEN {nonce_ok}
         ELSE LET chain == verify_certificate_chain(self, d.doc) IN
              IF ~chain.ok THEN {chain}
              ELSE LET sig == verify_signature(self, d.protected, d.payload,
                                               d.signature, d.doc)
                   IN
                   IF ~sig.ok THEN {sig}
                   ELSE IF self.expected_pcrs.some
                           /\ verify_pcrs(d.doc, self.expected_pcrs.v) # {}
                   THEN verify_pcrs(d.doc, self.expected_pcrs.v)
                   ELSE {Ok(d.doc)}

\* The stage-by-stage run returns what the function returns.
VerifyAgrees ==
    vresult.done =>
        vresult.r \in verify_attestation_document(
                          verifier, Envelope(vinput.params), vinput.expected_nonce)

(***************************************************************************)
(* Properties of verify_attestation_document (SpecVerify).                 *)
(***************************************************************************)
\* The nonce string the envelope built from params carries, if it carries
\* one as bytes that are UTF-8.
EnvelopeNonce(params) ==
    CASE params.nonce = "N1" -> Some(N1)
      [] params.nonce = "N2" -> Some(N2)
      [] OTHER -> None

\* C2: verify_attestation_document returns a document only if the
\* document's nonce is present and decodes to exactly the expected nonce;
\* a run on a document whose nonce is absent, undecodable or different
\* never gets past NonceCheck, whatever allow_debug and the module id are.
C2_NonceAlwaysChecked ==
    LET matches == EnvelopeNonce(vinput.params) = Some(vinput.expected_nonce) IN
    /\ (vresult.done /\ vresult.r.ok) => matches
    /\ ~matches =>
         /\ vstage \in {"Decode", "NonceCheck", "Failed"}
         /\ vstage = "Failed" =>
              vran \in {<<"Decode">>, <<"Decode", "NonceCheck">>}

\* A verifier with the debug bypass on has rejected a "mock-" document
\* whose nonce is not the expected one.
C2_Witness ==
    /\ verifier.allow_debug
    /\ vinput.params.mod = ModMock
    /\ vinput.params.nonce = "N2"
    /\ vinput.expected_nonce = N1
    /\ vstage = "Failed"
    /\ vresult = Returned(AVF(M("Nonce mismatch")))

\* C4: the stages run in the order Decode, NonceCheck, ChainValidate,
\* SignatureVerify, MeasurementCheck (the last only with expected PCRs);
\* a stage runs only if all before it passed, a failed stage is the last
\* to run and its error is the result, and a document is the result only
\* when every applicable stage has run and passed.
C4_StagesInOrder ==
    LET order == <<"Decode", "NonceCheck", "ChainValidate", "SignatureVerify">>
                 \o (IF verifier.expected_pcrs.some
                     THEN <<"MeasurementCheck">> ELSE <<>>)
        d == DecodeEnvelope(Envelope(vinput.params)).v
        Verdicts(stage) ==
            CASE stage = "Decode" -> {DecodeEnvelope(Envelope(vinput.params))}
              [] stage = "NonceCheck" -> {NonceCheck(d.doc, vinput.expected_nonce)}
              [] stage = "ChainValidate" -> {verify_certificate_chain(verifier, d.doc)}
              [] stage = "SignatureVerify" ->
                   {verify_signature(verifier, d.protected, d.payload,
                                     d.signature, d.doc)}
              [] stage = "MeasurementCheck" ->
                   LET errs == verify_pcrs(d.doc, verifier.expected_pcrs.v) IN
                   IF errs = {} THEN {Ok(TRUE)} ELSE errs
        n == Len(vran)
    IN
    /\ n <= Len(order)
    /\ vran = SubSeq(order, 1, n)
    /\ \A i \in 1..(n - 1) : \A v \in Verdicts(vran[i]) : v.ok
    /\ vstage = "Failed" <=> (n > 0 /\ \E v \in Verdicts(vran[n]) : ~v.ok)
    /\ vstage = "Failed" => vresult.done /\ vresult.r \in Verdicts(vran[n])
    /\ vstage = "Verified" <=> (vresult.done /\ vresult.r.ok)
    /\ vstage = "Verified" => vran = order /\ vresult.r.v = d.doc
    /\ vstage \notin {"Failed", "Verified"} =>
         ~vresult.done /\ n < Len(order) /\ vstage = order[n + 1]

\* All five stages have run and the document is returned.
C4_Witness ==
    /\ vstage = "Verified"
    /\ Len(vran) = 5
    /\ vran[5] = "MeasurementCheck"
    /\ vresult.r.ok

\* C5: with allow_debug false a document is returned only if its
\* certificate chain and its signature are the genuine ones, whatever the
\* module id; and an otherwise valid envelope with one signature byte
\* changed is refused with the signature error.
C5_ProductionVerifiesAll ==
    ~verifier.allow_debug =>
        /\ (vresult.done /\ vresult.r.ok) =>
              /\ vinput.params.chain \in GenuineChains
              /\ vinput.params.sig = SigGood
        /\ ( /\ vinput.params.sig.kind = "flip"
             /\ vinput.params.fault = "ok"
             /\ vinput.params.chain = "good"
             /\ EnvelopeNonce(vinput.params) = Some(vinput.expected_nonce)
             /\ vresult.done )
           => vresult.r = AVF(M("Signature verification failed"))

\* A production verifier has refused a "mock-" document, valid but for one
\* changed signature byte, with the signature error.
C5_Witness ==
    /\ ~verifier.allow_debug
    /\ vinput.params.mod = ModMock
    /\ vinput.params.sig = SigFlip(SigLen)
    /\ vinput.params.chain = "good"
    /\ vran = <<"Decode", "NonceCheck", "ChainValidate", "SignatureVerify">>
    /\ vresult = Returned(AVF(M("Signature verification failed")))

(***************************************************************************)
(* client.rs: OpenSecretClient.                                            *)
(***************************************************************************)
\* The loop of parse_mock_attestation over the payload map, from entry i.
RECURSIVE MockFields(_, _, _)
MockFields(entries, i, doc) ==
    IF i > Len(entries) THEN doc
    ELSE LET key == entries[i].k
             value == entries[i].v
             field == IF value.t = "Bytes" THEN Some(value.v) ELSE None
         IN
         MockFields(entries, i + 1,
                    IF key = "public_key" THEN [doc EXCEPT !.public_key = field]
                    ELSE IF key = "nonce" THEN [doc EXCEPT !.nonce = field]
                    ELSE doc)

\* OpenSecretClient::parse_mock_attestation
parse_mock_attestation(document_b64) ==
    LET document_bytes == Base64Decode(document_b64) IN
    IF ~document_bytes.ok THEN document_bytes
    ELSE LET cbor_value == cbor_from_slice(document_bytes.v) IN
    IF ~cbor_value.ok THEN cbor_value
    ELSE IF cbor_value.v.t # "Array" \/ Len(cbor_value.v.v) # 4
    THEN AVF(M("Invalid COSE_Sign1 structure"))
    ELSE LET cose_sign1 == cbor_value.v.v IN
    IF cose_sign1[3].t # "Bytes"
    THEN AVF(M("Invalid payload"))
    ELSE LET doc_cbor == cbor_from_slice(cose_sign1[3].v) IN
    IF ~doc_cbor.ok THEN doc_cbor
    ELSE IF doc_cbor.v.t # "Map"
    THEN AVF(M("Invalid attestation document format"))
    ELSE Ok(MockFields(doc_cbor.v.v, 1,
                       [module_id |-> ModMock \o <<111, 100, 117, 108, 101>>,
                        timestamp |-> 0, digest |-> <<83>>, pcrs |-> <<>>,
                        certificate |-> RawBytes(<<>>), cabundle |-> <<>>,
                        public_key |-> None, user_data |-> None,
                        nonce |-> None]))

\* Uuid::new_v4().to_string(): the n-th nonce this client draws.  Random
\* UUIDs are taken to be distinct: "N1", "N2", ...
MaxHandshakes == 2
NonceOf(n) == <<78, 48 + n>>
\* generate_static_keypair: the n-th secret this client draws.
SecretOf(n) == 3 + n

\* What the network can answer an attestation request with: a transport
\* error, an error status, a body that is not the expected JSON, or an
\* envelope.
AttestationOutcomes ==
    { [outcome |-> o, params |-> GoodParams] : o \in {"send", "status", "json"} }
    \cup
    { [outcome |-> "ok", params |-> Params("ok", n, t.mod, t.chain, t.sig, "pk", "one")] :
        n \in {"absent", "N1", "N2"},
        t \in { [mod |-> ModProd, chain |-> "good", sig |-> SigGood],
                [mod |-> ModProd, chain |-> "forgedleaf",
                 sig |-> [kind |-> "forged", at |-> 0]],
                [mod |-> ModMock, chain |-> "forgedleaf",
                 sig |-> [kind |-> "forged", at |-> 0]] } }
    \cup
    { [outcome |-> "ok", params |-> [GoodParams EXCEPT !.pk = k]] :
        k \in {"absent", "pk2", "short"} }

\* What the network can answer a key-exchange request with: as above, or
\* a response whose encrypted_session_key is the session key `pt` sealed
\* under the secret the enclave key `s` shares with the client's public
\* key, and whose session_id is `sid`; `wire` damages the sealed key.
K32a == Fill(KeyLen, 1)
K32b == Fill(KeyLen, 2)
KxBase ==
    [outcome |-> "ok", s |-> 2, pt |-> K32a, sid |-> UuidStr(1), wire |-> "ok"]
KeyExchangeOutcomes ==
    { [KxBase EXCEPT !.outcome = o] : o \in {"send", "status", "json"} }
    \cup
    { [KxBase EXCEPT !.s = s, !.pt = d.pt, !.sid = d.sid] :
        s \in {2, 3},
        d \in { [pt |-> K32a, sid |-> UuidStr(1)], [pt |-> K32b, sid |-> UuidStr(2)] } }
    \cup
    { [KxBase EXCEPT !.pt = pt] : pt \in {Fill(16, 1), Fill(48, 1)} }
    \cup
    { [KxBase EXCEPT !.sid = BadUuidStr] }
    \cup
    { [KxBase EXCEPT !.wire = w] : w \in {"badb64", "short", "tampered"} }

\* The KeyExchangeResponse for outcome k to a request carrying
\* client_public_key.
KeyExchangeResponse(k, client_public_key) ==
    LET n12 == Fill(NonceLen, 5)
        shared == perform_static_key_exchange(k.s, client_public_key)
        sealed == n12 \o aead_encrypt(shared, n12, k.pt)
    IN
    [encrypted_session_key |->
         CASE k.wire = "ok" -> B64(sealed)
           [] k.wire = "badb64" -> BadB64
           [] k.wire = "short" -> B64(SubSeq(sealed, 1, NonceLen - 1))
           [] k.wire = "tampered" ->
                B64([sealed EXCEPT ![Len(sealed)] = (sealed[Len(sealed)] + 1) % 256]),
     session_id |-> k.sid]

\* SessionManager::set_session, get_session, clear_session as the client
\* sees them: one access under the lock (SpecStore has the lock itself).
\* set_session as it would be if it replaced the id and kept a key it
\* already held.
set_sessionKeepsKey(session_id, session_key) ==
    session' = Some([session_id |-> session_id,
                     session_key |-> IF session.some THEN session.v.session_key
                                     ELSE session_key])

set_session(session_id, session_key) ==
    session' = Some([session_id |-> session_id, session_key |-> session_key])
get_session == session
\* get_session_id as it would be if a missing session read as the nil id.
get_session_idOrNil ==
    Some(IF session.some THEN session.v.session_id ELSE 0)

\* client.rs 195-197.
get_session_id == IF session.some THEN Some(session.v.session_id) ELSE None

\* HandshakeFails as it would be if a failed handshake dropped the session.
HandshakeFailsClearsSession(h, err) ==
    /\ pc' = [pc EXCEPT ![h] = "failed"]
    /\ result' = [result EXCEPT ![h] = Returned(err)]
    /\ session' = None

\* perform_attestation_handshake returns Err(err) from task h.
HandshakeFails(h, err) ==
    /\ pc' = [pc EXCEPT ![h] = "failed"]
    /\ result' = [result EXCEPT ![h] = Returned(err)]
    /\ UNCHANGED session

\* client.rs 96: the request of get_attestation_document(nonce) is a GET
\* of {base_url}/attestation/{nonce}; the path's last segment.
AttestationPath(n) == n

\* client.rs 123-126: the body of perform_key_exchange(nonce)'s request.
KeyExchangeRequest(client_public_key, n) ==
    [client_public_key |-> B64(client_public_key), nonce |-> n]

\* client.rs 69-76: the nonce the verification step compares the
\* document's nonce with; parse_mock_attestation is given none.
ExpectedNonce(mock, n) == IF ~mock THEN Some(n) ELSE None

\* Requested as it would be if the key-exchange request were sent whatever
\* the verification step returned.
RequestedRegardless(h, expected, sent) ==
    requests' = [requests EXCEPT
                   ![h].expected = expected,
                   ![h].key_exchange =
                       Some(KeyExchangeRequest(x25519_public(SecretOf(1)), nonce[h]))]

\* Task h's verification step was given `expected` and its key-exchange
\* request, if it sent one, carried `sent`.
Requested(h, expected, sent) ==
    requests' = [requests EXCEPT ![h].expected = expected,
                                 ![h].key_exchange = sent]

\* client.rs 62-67: a task calls perform_attestation_handshake, which
\* draws its nonce and sends the attestation request.
Start(h) ==
    /\ pc[h] = "idle"
    /\ started < MaxHandshakes
    /\ started' = started + 1
    /\ nonce' = [nonce EXCEPT ![h] = NonceOf(started + 1)]
    /\ drawn' = Append(drawn, NonceOf(started + 1))
    /\ requests' = [requests EXCEPT
                       ![h] = [NoRequests EXCEPT
                                 !.fetch = Some(AttestationPath(NonceOf(started + 1)))]]
    /\ secret' = [secret EXCEPT ![h] = 0]
    /\ pc' = [pc EXCEPT ![h] = "attest_wait"]
    /\ UNCHANGED <<base_url, use_mock_attestation, allow_debug, session, tokens,
                   server_public_key, att, kx, result, verifyVars, storeVars, cryptoVars, apiVars, pointVars, sideVars>>

\* The verification step of perform_attestation_handshake (lines 69-76):
\* the values `doc` can get, errors included.
HandshakeVerify(mock, debug, document_b64, expected_nonce) ==
    IF ~mock
    THEN verify_attestation_document(AttestationVerifier(None, debug),
                                     document_b64, expected_nonce)
    ELSE {parse_mock_attestation(document_b64)}

\* client.rs 115-146: perform_key_exchange draws a key pair, builds the
\* request (the Authorization header from the access token, if one is
\* held) and sends it.
KeyExchangeSend(h) ==
    /\ secret' = [secret EXCEPT ![h] = SecretOf(nonce[h][2] - 48)]
    /\ pc' = [pc EXCEPT ![h] = "kx_wait"]

\* A handshake that does not get as far as perform_key_exchange.
NoKeyExchange(h) ==
    /\ UNCHANGED <<server_public_key, secret>>

\* client.rs 67-146, 95-113: the attestation request is answered; the
\* document is verified, its public key stored and the key exchange begun.
AttestationResponse(h) ==
    /\ pc[h] = "attest_wait"
    /\ \E o \in AttestationOutcomes :
         /\ att' = [att EXCEPT ![h] = Some(o)]
         /\ IF o.outcome \in {"send", "json"}
            THEN /\ HandshakeFails(h, Err("Http", M(o.outcome)))
                 /\ NoKeyExchange(h)
                 /\ UNCHANGED requests
            ELSE IF o.outcome = "status"
            THEN /\ HandshakeFails(h, Err("Api", M(o.outcome)))
                 /\ NoKeyExchange(h)
                 /\ UNCHANGED requests
            ELSE \E doc \in HandshakeVerify(use_mock_attestation, allow_debug,
                                            Envelope(o.params), nonce[h]) :
                   IF ~doc.ok
                   THEN /\ HandshakeFails(h, doc)
                        /\ NoKeyExchange(h)
                        /\ Requested(h, ExpectedNonce(use_mock_attestation, nonce[h]), None)
                   ELSE IF doc.v.public_key.some
                   THEN /\ server_public_key' = Some(doc.v.public_key.v.x)
                        /\ KeyExchangeSend(h)
                        /\ Requested(h, ExpectedNonce(use_mock_attestation, nonce[h]),
                                     Some(KeyExchangeRequest(x25519_public(secret'[h]),
                                                             nonce[h])))
                        /\ UNCHANGED <<result, session>>
                   ELSE /\ HandshakeFails(h, AVF(M("No public key in attestation document")))
                        /\ NoKeyExchange(h)
                        /\ Requested(h, ExpectedNonce(use_mock_attestation, nonce[h]), None)
    /\ UNCHANGED <<base_url, use_mock_attestation, allow_debug, tokens, started,
                   nonce, kx, drawn, verifyVars, storeVars, cryptoVars, apiVars, pointVars, sideVars>>

\* client.rs 162-190, with the response in hand: read the server key,
\* derive the shared secret, decrypt the session key, parse the session id.
\* Ok([session_id, session_key]) or the error returned.
KeyExchangeFinish(response, my_secret, stored_key) ==
    IF ~stored_key.some
    THEN Err("KeyExchange", M("Server public key not available"))
    ELSE IF Len(stored_key.v) # KeyLen
    THEN Err("KeyExchange", M("Invalid server public key length"))
    ELSE LET shared_secret == perform_static_key_exchange(my_secret, stored_key.v)
             session_key == decrypt_session_key(shared_secret,
                                                response.encrypted_session_key)
         IN
         IF ~session_key.ok THEN session_key
         ELSE LET session_id == uuid_parse_str(response.session_id) IN
              IF ~session_id.ok
              THEN Err("Session", M("Invalid session ID format"))
              ELSE Ok([session_id |-> session_id.v, session_key |-> session_key.v])

\* KeyExchangeAnswer as it would be if the session were stored before the
\* session id is parsed.
KeyExchangeAnswerStoresEarly(h) ==
    /\ pc[h] = "kx_wait"
    /\ \E k \in KeyExchangeOutcomes :
         /\ kx' = [kx EXCEPT ![h] = Some(k)]
         /\ IF k.outcome \in {"send", "json"}
            THEN HandshakeFails(h, Err("Http", M(k.outcome)))
            ELSE IF k.outcome = "status"
            THEN HandshakeFails(h, Err("Api", M(k.outcome)))
            ELSE LET r == KeyExchangeFinish(
                              KeyExchangeResponse(k, x25519_public(secret[h])),
                              secret[h], server_public_key)
                 IN
                 IF ~r.ok /\ r.kind = "Session"
                 THEN /\ set_session(0, k.pt)
                      /\ pc' = [pc EXCEPT ![h] = "failed"]
                      /\ result' = [result EXCEPT ![h] = Returned(r)]
                 ELSE IF ~r.ok
                 THEN HandshakeFails(h, r)
                 ELSE /\ set_session(r.v.session_id, r.v.session_key)
                      /\ pc' = [pc EXCEPT ![h] = "done"]
                      /\ result' = [result EXCEPT ![h] = Returned(Ok(TRUE))]
    /\ att' = [att EXCEPT ![h] = None]
    /\ UNCHANGED <<base_url, use_mock_attestation, allow_debug, tokens,
                   server_public_key, started, nonce, secret, verifyVars, storeVars, cryptoVars, apiVars, wireVars, pointVars, sideVars>>

\* client.rs 146-192: the key-exchange request is answered.
KeyExchangeAnswer(h) ==
    /\ pc[h] = "kx_wait"
    /\ \E k \in KeyExchangeOutcomes :
         /\ kx' = [kx EXCEPT ![h] = Some(k)]
         /\ IF k.outcome \in {"send", "json"}
            THEN HandshakeFails(h, Err("Http", M(k.outcome)))
            ELSE IF k.outcome = "status"
            THEN HandshakeFails(h, Err("Api", M(k.outcome)))
            ELSE LET r == KeyExchangeFinish(
                              KeyExchangeResponse(k, x25519_public(secret[h])),
                              secret[h], server_public_key)
                 IN
                 IF ~r.ok
                 THEN HandshakeFails(h, r)
                 ELSE /\ set_session(r.v.session_id, r.v.session_key)
                      /\ pc' = [pc EXCEPT ![h] = "done"]
                      /\ result' = [result EXCEPT ![h] = Returned(Ok(TRUE))]
    /\ att' = [att EXCEPT ![h] = None]
    /\ UNCHANGED <<base_url, use_mock_attestation, allow_debug, tokens,
                   server_public_key, started, nonce, secret, verifyVars, storeVars, cryptoVars, apiVars, wireVars, pointVars, sideVars>>

\* The future of perform_attestation_handshake is dropped while it waits
\* at one of its awaits.
Cancel(h) ==
    /\ pc[h] \in {"attest_wait", "kx_wait"}
    /\ pc' = [pc EXCEPT ![h] = "cancelled"]
    /\ nonce' = [nonce EXCEPT ![h] = <<>>]
    /\ att' = [att EXCEPT ![h] = None]
    /\ secret' = [secret EXCEPT ![h] = 0]
    /\ requests' = [requests EXCEPT ![h] = NoRequests]
    /\ UNCHANGED <<base_url, use_mock_attestation, allow_debug, session, tokens,
                   server_public_key, started, kx, result, drawn, verifyVars, storeVars, cryptoVars, apiVars, pointVars, sideVars>>

\* The caller has the result; the task can call again.
Return(h) ==
    /\ pc[h] \in {"done", "failed", "cancelled"}
    /\ pc' = [pc EXCEPT ![h] = "idle"]
    /\ nonce' = [nonce EXCEPT ![h] = <<>>]
    /\ att' = [att EXCEPT ![h] = None]
    /\ secret' = [secret EXCEPT ![h] = 0]
    /\ kx' = [kx EXCEPT ![h] = None]
    /\ result' = [result EXCEPT ![h] = NotRun]
    /\ requests' = [requests EXCEPT ![h] = NoRequests]
    /\ UNCHANGED <<base_url, use_mock_attestation, allow_debug, session, tokens,
                   server_public_key, started, drawn, verifyVars, storeVars, cryptoVars, apiVars, pointVars, sideVars>>

Init ==
    /\ VerifyIdle
    /\ StoreNew
    /\ CryptoIdle
    /\ ApiIdle
    /\ PointIdle
    /\ SideIdle
    /\ \E url \in {LocalUrl, RemoteUrl} : Constructed(url)
    /\ allow_debug \in BOOLEAN
    /\ ClientNew

Next ==
    \E h \in Tasks :
        \/ Start(h)
        \/ AttestationResponse(h)
        \/ KeyExchangeAnswer(h)
        \/ Cancel(h)
        \/ Return(h)

Spec == Init /\ [][Next]_vars

(***************************************************************************)
(* session.rs: SessionManager under concurrent callers (SpecStore).       *)
(* Each call takes the RwLock, touches the fields of the stored value one *)
(* at a time in an order the compiler is free to choose, and lets the     *)
(* lock go when its guard is dropped.                                      *)
(***************************************************************************)
MaxStoreCalls == 3

\* The pairs the callers pass to set_session.
StorePairs ==
    { [session_id |-> 1, session_key |-> K32a],
      [session_id |-> 2, session_key |-> K32b] }

\* The calls a thread can make: the operation and the value it assigns.
StoreCalls ==
    { [op |-> "get_session", arg |-> EmptySlot],
      [op |-> "clear_session", arg |-> EmptySlot] }
    \cup
    { [op |-> "set_session",
       arg |-> [some |-> TRUE, session_id |-> p.session_id,
                session_key |-> p.session_key]] : p \in StorePairs }

\* Option<SessionState>::clone of the fields copied into buf.
CloneOf(buf) ==
    IF buf.some
    THEN Some([session_id |-> buf.session_id, session_key |-> buf.session_key])
    ELSE None

\* A thread calls set_session, get_session or clear_session.
StoreCall(t) ==
    /\ tpc[t] = "idle"
    /\ calls < MaxStoreCalls
    /\ calls' = calls + 1
    /\ \E c \in StoreCalls :
         /\ tcall' = [tcall EXCEPT ![t] = c]
         /\ written' = IF c.op = "set_session"
                       THEN written \cup {CloneOf(c.arg).v}
                       ELSE written
    /\ tpc' = [tpc EXCEPT ![t] = "lock"]
    /\ got' = [got EXCEPT ![t] = NotRun]
    /\ UNCHANGED <<slot, lock, todo, tbuf, verifyVars, clientVars, cryptoVars,
                   apiVars, wireVars, pointVars, sideVars>>

\* self.session.write() in set_session (line 20) and clear_session
\* (line 39): granted when no guard is out.
LockWrite(t) ==
    /\ tpc[t] = "lock"
    /\ tcall[t].op \in {"set_session", "clear_session"}
    /\ lock = Unlocked
    /\ lock' = [lock EXCEPT !.writer = t]
    /\ todo' = [todo EXCEPT ![t] = IF tcall[t].op = "set_session"
                                   THEN StoreFields ELSE {"some"}]
    /\ tpc' = [tpc EXCEPT ![t] = "held"]
    /\ UNCHANGED <<slot, tcall, tbuf, got, written, calls,
                   verifyVars, clientVars, cryptoVars,
                   apiVars, wireVars, pointVars, sideVars>>

\* LockRead as it would be if readers did not wait for a writer.
LockReadPastWriter(t) ==
    /\ tpc[t] = "lock"
    /\ tcall[t].op = "get_session"
    /\ lock' = [lock EXCEPT !.readers = @ \cup {t}]
    /\ todo' = [todo EXCEPT ![t] = StoreFields]
    /\ tbuf' = [tbuf EXCEPT ![t] = EmptySlot]
    /\ tpc' = [tpc EXCEPT ![t] = "held"]
    /\ UNCHANGED <<slot, tcall, got, written, calls, verifyVars, clientVars, cryptoVars,
                   apiVars, wireVars, pointVars, sideVars>>

\* self.session.read() in get_session (line 32): granted when no write
\* guard is out.
LockRead(t) ==
    /\ tpc[t] = "lock"
    /\ tcall[t].op = "get_session"
    /\ lock.writer = 0
    /\ lock' = [lock EXCEPT !.readers = @ \cup {t}]
    /\ todo' = [todo EXCEPT ![t] = StoreFields]
    /\ tbuf' = [tbuf EXCEPT ![t] = EmptySlot]
    /\ tpc' = [tpc EXCEPT ![t] = "held"]
    /\ UNCHANGED <<slot, tcall, got, written, calls, verifyVars, clientVars, cryptoVars,
                   apiVars, wireVars, pointVars, sideVars>>

\* `*session = Some(SessionState { .. })` (lines 23-26) and
\* `*session = None` (line 42): one field is written.
WriteField(t) ==
    /\ tpc[t] = "held"
    /\ tcall[t].op \in {"set_session", "clear_session"}
    /\ \E f \in todo[t] :
         /\ slot' = [slot EXCEPT ![f] = tcall[t].arg[f]]
         /\ todo' = [todo EXCEPT ![t] = @ \ {f}]
    /\ UNCHANGED <<lock, tpc, tcall, tbuf, got, written, calls,
                   verifyVars, clientVars, cryptoVars,
                   apiVars, wireVars, pointVars, sideVars>>

\* session.clone() (line 35): one field is copied.
ReadField(t) ==
    /\ tpc[t] = "held"
    /\ tcall[t].op = "get_session"
    /\ \E f \in todo[t] :
         /\ tbuf' = [tbuf EXCEPT ![t][f] = slot[f]]
         /\ todo' = [todo EXCEPT ![t] = @ \ {f}]
    /\ UNCHANGED <<slot, lock, tpc, tcall, got, written, calls,
                   verifyVars, clientVars, cryptoVars,
                   apiVars, wireVars, pointVars, sideVars>>

\* The call returns and its guard is dropped; get_session returns the
\* clone.
Unlock(t) ==
    /\ tpc[t] = "held"
    /\ todo[t] = {}
    /\ lock' = [writer |-> IF lock.writer = t THEN 0 ELSE lock.writer,
                readers |-> lock.readers \ {t}]
    /\ got' = [got EXCEPT ![t] = IF tcall[t].op = "get_session"
                                 THEN Returned(CloneOf(tbuf[t])) ELSE NotRun]
    /\ tpc' = [tpc EXCEPT ![t] = "idle"]
    /\ UNCHANGED <<slot, tcall, todo, tbuf, written, calls,
                   verifyVars, clientVars, cryptoVars,
                   apiVars, wireVars, pointVars, sideVars>>

StoreInit ==
    /\ VerifyIdle
    /\ ClientIdle
    /\ StoreNew
    /\ CryptoIdle
    /\ ApiIdle
    /\ PointIdle
    /\ SideIdle

StoreNext ==
    \E t \in Threads :
        \/ StoreCall(t)
        \/ LockWrite(t)
        \/ LockRead(t)
        \/ WriteField(t)
        \/ ReadField(t)
        \/ Unlock(t)

SpecStore == StoreInit /\ [][StoreNext]_vars

(***************************************************************************)
(* Properties of the session store (SpecStore).                            *)
(***************************************************************************)
\* C7: every value get_session has returned is None or a pair passed,
\* whole, to one set_session call; never the id of one with the key of
\* another.
C7_NoTornSession ==
    \A t \in Threads :
        (got[t].done /\ got[t].r.some) => got[t].r.v \in written

\* get_session has returned a whole pair, and a later set_session is now
\* half-way through replacing it: the fields in memory are of no one pair.
C7_Witness ==
    \E r \in Threads, w \in Threads :
        /\ got[r].done /\ got[r].r.some
        /\ tpc[w] = "held" /\ tcall[w].op = "set_session"
        /\ slot.some
        /\ [session_id |-> slot.session_id,
            session_key |-> slot.session_key] \notin written

(***************************************************************************)
(* Properties of the handshake (Spec).                                     *)
(***************************************************************************)
\* The {session_id, session_key} pair a key-exchange response delivers.
DeliveredPair(k) == [session_id |-> k.sid.x, session_key |-> k.pt]

\* The steps of task h: its handshake completes, or it is answered.
Completes(h) == pc[h] = "kx_wait" /\ pc'[h] = "done"
Answered(h) == pc[h] = "kx_wait" /\ pc'[h] \in {"done", "failed"}

\* C1: every step of a handshake that does not complete it, and so every
\* step by which it fails (attestation fetch, verification, missing key,
\* key-exchange request, decryption, session-id parsing), leaves
\* get_session() returning what it returned before the step.
C1_FailureKeepsSession ==
    [][\A h \in Tasks :
         (pc'[h] # pc[h] /\ pc'[h] # "done") => session' = session]_vars

\* A handshake has failed at its last step, the parsing of the session id,
\* on a client that holds a session.
C1_Witness ==
    \E h \in Tasks :
        /\ pc[h] = "failed"
        /\ result[h].r.kind = "Session"
        /\ session.some

\* C3: every session written to the store comes from a handshake whose
\* attestation document carried the nonce that handshake generated.
C3_SessionOnlyAfterNonceMatch ==
    [][\A h \in Tasks :
         Completes(h) =>
             /\ att[h].some
             /\ EnvelopeNonce(att[h].v.params) = Some(nonce[h])]_vars

\* C6: a handshake goes on past verification with a document whose
\* certificate chain or signature is not genuine only if the client is
\* configured for local development and the document's module id starts
\* with "mock-".
C6_BypassNeedsConfigAndPrefix ==
    \A h \in Tasks :
        ( /\ pc[h] = "kx_wait"
          /\ \/ att[h].v.params.chain # "good"
             \/ att[h].v.params.sig # SigGood )
        => /\ use_mock_attestation \/ allow_debug
           /\ starts_with(att[h].v.params.mod, MockPrefix)

\* C8: the stored session is at every moment a pair delivered whole by one
\* key-exchange response; the step that completes a handshake leaves in
\* the store the pair of that handshake's response (the last write wins);
\* and when both handshakes have succeeded the store holds the pair of one
\* of the two.
C8_LastWriteWins ==
    [][ /\ \A h \in Tasks :
             Completes(h) => session' = Some(DeliveredPair(kx'[h].v))
        /\ session'.some =>
             \E k \in KeyExchangeOutcomes :
                 k.sid.valid /\ session'.v = DeliveredPair(k)
        /\ (\A h \in Tasks : pc'[h] = "done") =>
             \E h \in Tasks : session' = Some(DeliveredPair(kx'[h].v)) ]_vars

\* Both handshakes have succeeded with different pairs.
C8_Witness ==
    /\ \A h \in Tasks : pc[h] = "done" /\ result[h] = Returned(Ok(TRUE))
    /\ DeliveredPair(kx[1].v) # DeliveredPair(kx[2].v)
    /\ session = Some(DeliveredPair(kx[1].v))

\* C9: a handshake is cancelled only where it waits, and the cancellation
\* leaves the store as it is; the store changes only in the step that
\* ends a handshake with success, with the session key decrypted to its
\* full length and the session id parsed, and that step returns.
C9_CancelLeavesStore ==
    [][ /\ \A h \in Tasks :
             (pc[h] # "cancelled" /\ pc'[h] = "cancelled") =>
                 /\ pc[h] \in {"attest_wait", "kx_wait"}
                 /\ session' = session
        /\ session' # session =>
             \E h \in Tasks :
                 /\ Completes(h)
                 /\ result'[h] = Returned(Ok(TRUE))
                 /\ kx'[h].v.sid.valid
                 /\ Len(kx'[h].v.pt) = KeyLen ]_vars

\* A handshake was cancelled while it waited for the key-exchange answer
\* (the enclave key it stored is not the one the session was made with),
\* and the store holds the other handshake's session.
C9_Witness ==
    /\ pc[1] = "cancelled"
    /\ pc[2] = "done"
    /\ session = Some(DeliveredPair(kx[2].v))
    /\ server_public_key # Some(x25519_public(kx[2].v.s))

\* C10: a handshake whose key-exchange answer decrypts, under the key the
\* client holds, to a session key of a length other than 32 fails with a
\* KeyExchange error and stores nothing.
C10_BadKeyLengthIsKeyExchangeError ==
    [][\A h \in Tasks :
         ( /\ Answered(h)
           /\ kx'[h].v.outcome = "ok"
           /\ kx'[h].v.wire = "ok"
           /\ Len(kx'[h].v.pt) # KeyLen
           /\ server_public_key = Some(x25519_public(kx'[h].v.s)) )
         => /\ pc'[h] = "failed"
            /\ result'[h].r.kind = "KeyExchange"
            /\ session' = session]_vars

(***************************************************************************)
(* Properties of the stages of verify_attestation_document (SpecVerify).   *)
(***************************************************************************)
\* The stage a finished run ended in.
LastStage == IF vran = <<>> THEN "none" ELSE vran[Len(vran)]
\* The run failed in the given stage.
FailedIn(stage) == vresult.done /\ ~vresult.r.ok /\ LastStage = stage

\* The expected indices the decoded document does not carry with the
\* expected bytes.
OffendingPcrs ==
    {i \in DOMAIN verifier.expected_pcrs.v :
        \/ i \notin DOMAIN vdecoded.v.doc.pcrs
        \/ vdecoded.v.doc.pcrs[i] # verifier.expected_pcrs.v[i]}

\* C21: with expected PCR values supplied, a document is returned only if
\* every expected index is in its PCR map with the expected bytes, and the
\* PCR check passes whenever that is so, whatever other indices the map
\* holds; when the check fails the error names an offending index, as
\* "missing" if the map lacks it and as "mismatch" if its bytes differ.
C21_ExpectedPcrsByteEqual ==
    (verifier.expected_pcrs.some /\ vresult.done /\ vdecoded.some) =>
        /\ vresult.r.ok => OffendingPcrs = {}
        /\ (LastStage = "MeasurementCheck" /\ OffendingPcrs = {}) => vresult.r.ok
        /\ FailedIn("MeasurementCheck") =>
             /\ vresult.r.kind = "AttestationVerificationFailed"
             /\ vresult.r.msg.at \in OffendingPcrs
             /\ vresult.r.msg.text =
                  IF vresult.r.msg.at \in DOMAIN vdecoded.v.doc.pcrs
                  THEN "PCR mismatch" ELSE "PCR missing"

C21_Witness ==
    /\ FailedIn("MeasurementCheck")
    /\ vresult.r.msg = MAt("PCR missing", 1)
    /\ OffendingPcrs = {0, 1}

\* The decoded document went through verify_certificate_chain with the
\* bypass not active.
ChainValidated ==
    /\ vdecoded.some
    /\ \E i \in 1..Len(vran) : vran[i] = "ChainValidate"
    /\ ~DebugBypass(verifier, vdecoded.v.doc)

\* C22: with the bypass not active, a document whose bundle is empty or
\* whose first bundled certificate is not the pinned root, byte for byte,
\* fails chain validation with the error of that test, whether or not its
\* certificates parse and whatever they are signed with.
C22_RootPinnedFirst ==
    ChainValidated =>
        LET cabundle == vdecoded.v.doc.cabundle IN
        /\ cabundle = <<>>
             => /\ FailedIn("ChainValidate")
                /\ vresult.r = AVF(M("Certificate bundle is empty"))
        /\ (cabundle # <<>> /\ cabundle[1] # AWS_NITRO_ROOT_CERT)
             => /\ FailedIn("ChainValidate")
                /\ vresult.r = AVF(M("First certificate does not match AWS Nitro root certificate"))

C22_Witness ==
    /\ ChainValidated
    /\ FailedIn("ChainValidate")
    /\ vinput.params.chain = "selfsigned"
    /\ ~verifier.allow_debug

\* The certificates of the decoded document in chain order: the bundle,
\* then the leaf (defined when each of them is a certificate).
CertsInOrder ==
    LET d == vdecoded.v.doc IN
    [i \in 1..(Len(d.cabundle) + 1) |->
        IF i <= Len(d.cabundle) THEN d.cabundle[i].x ELSE d.certificate.x]
\* Chain validation got as far as the links: the root is pinned and every
\* certificate parses and is within its validity window.
LinksReached ==
    /\ ChainValidated
    /\ LET d == vdecoded.v.doc IN
       /\ d.cabundle # <<>>
       /\ d.cabundle[1] = AWS_NITRO_ROOT_CERT
       /\ \A i \in 1..Len(d.cabundle) : d.cabundle[i].enc = "der"
       /\ d.certificate.enc = "der"
    /\ \A i \in 1..Len(CertsInOrder) : CertsInOrder[i].valid
\* The pairs of adjacent certificates (i - 1, i) whose issuer/subject do
\* not match, and those whose signature was not made by the earlier key.
IssuerBroken == {i \in 2..Len(CertsInOrder) :
                    CertsInOrder[i].issuer # CertsInOrder[i - 1].subject}
SignerBroken == {i \in 2..Len(CertsInOrder) :
                    CertsInOrder[i].signer # CertsInOrder[i - 1].key.id}
FirstBrokenLink ==
    CHOOSE i \in IssuerBroken \cup SignerBroken :
        \A j \in IssuerBroken \cup SignerBroken : i <= j

\* C23: with the bypass not active, chain validation passes only if in
\* every adjacent pair of root, ..., last bundled certificate, leaf the
\* later certificate names the earlier as its issuer and is signed by the
\* earlier's key; and when the first pair that is not so has a mismatched
\* issuer, the error is the issuer error of that pair, whether or not the
\* signature is the earlier key's.
C23_EveryLinkIssuerThenSignature ==
    LinksReached =>
        /\ ~FailedIn("ChainValidate")
             => IssuerBroken = {} /\ SignerBroken = {}
        /\ (IssuerBroken # {} /\ FirstBrokenLink \in IssuerBroken)
             => /\ FailedIn("ChainValidate")
                /\ vresult.r =
                     IF FirstBrokenLink = Len(CertsInOrder)
                     THEN AVF(M("Leaf certificate issuer doesn't match last certificate in chain"))
                     ELSE AVF(MAt("Certificate issuer doesn't match previous subject - chain is broken",
                                  FirstBrokenLink - 1))

C23_Witness ==
    /\ LinksReached
    /\ FailedIn("ChainValidate")
    /\ IssuerBroken = {3}
    /\ SignerBroken = {}
    /\ Len(CertsInOrder) = 4

\* C24: when chain validation fails at a link, the error identifies the
\* link: it carries the index of the bundled certificate that failed
\* against its predecessor, or it is one of the errors of the leaf against
\* the last bundled certificate.
C24_FailingLinkIdentified ==
    (LinksReached /\ FailedIn("ChainValidate")) =>
        \/ vresult.r.msg.at \in 1..(Len(vdecoded.v.doc.cabundle) - 1)
        \/ vresult.r.msg.text \in
             {"Leaf certificate issuer doesn't match last certificate in chain",
              "Leaf certificate signature verification failed"}

\* The certificates below the root whose declared signature algorithm is
\* neither ECDSA with SHA-384 nor ECDSA with SHA-256 (positions in
\* CertsInOrder).
UnsupportedAlgorithm ==
    {i \in 2..Len(CertsInOrder) :
        CertsInOrder[i].alg \notin {EcdsaSha384, EcdsaSha256}}

Unusable ==
    {i \in 1..Len(vdecoded.v.doc.cabundle) :
        \/ vdecoded.v.doc.cabundle[i].enc # "der"
        \/ ~vdecoded.v.doc.cabundle[i].x.valid}
LeafUnusable ==
    \/ vdecoded.v.doc.certificate.enc # "der"
    \/ ~vdecoded.v.doc.certificate.x.valid

\* C33: with the bypass not active, chain validation passes only if every
\* bundled certificate and the leaf parse and are within their validity
\* windows; under the pinned root, the first bundled certificate that is
\* not so is reported with its index, and a leaf that is not so under a
\* usable bundle is reported as the leaf, before any link is looked at.
C33_EveryCertificateParsesAndIsValid ==
    ChainValidated =>
        LET d == vdecoded.v.doc IN
        /\ ~FailedIn("ChainValidate") => (Unusable = {} /\ ~LeafUnusable)
        /\ (d.cabundle # <<>> /\ d.cabundle[1] = AWS_NITRO_ROOT_CERT /\ Unusable # {})
             => LET i == CHOOSE i \in Unusable : \A j \in Unusable : i <= j IN
                /\ FailedIn("ChainValidate")
                /\ vresult.r =
                     IF d.cabundle[i].enc # "der"
                     THEN AVF(MAt("Failed to parse certificate", i - 1))
                     ELSE AVF(MAt("Certificate is expired or not yet valid", i - 1))
        /\ (d.cabundle # <<>> /\ d.cabundle[1] = AWS_NITRO_ROOT_CERT
              /\ Unusable = {} /\ LeafUnusable)
             => /\ FailedIn("ChainValidate")
                /\ vresult.r =
                     IF d.certificate.enc # "der"
                     THEN AVF(M("Failed to parse leaf certificate"))
                     ELSE AVF(M("Leaf certificate is expired or not yet valid"))

\* A chain sound in every link, whose third bundled certificate is outside
\* its validity window, was refused.
C33_Witness ==
    /\ ChainValidated
    /\ FailedIn("ChainValidate")
    /\ Unusable = {3}
    /\ ~LeafUnusable
    /\ vdecoded.v.doc.cabundle[3].enc = "der"
    /\ vdecoded.v.doc.cabundle[1] = AWS_NITRO_ROOT_CERT

\* The envelope decoded: the stage Decode has passed.
Decoded == vdecoded.some
\* The entries of the payload map of the envelope given in (defined for an
\* envelope that decodes).
PayloadEntries == Payload(vinput.params).x.v
\* The field of the decoded document that the optional key names.
OptionalField(key) ==
    CASE key = "public_key" -> vdecoded.v.doc.public_key
      [] key = "user_data" -> vdecoded.v.doc.user_data
      [] key = "nonce" -> vdecoded.v.doc.nonce
OptionalKeys == {"public_key", "user_data", "nonce"}

\* C25: an envelope is decoded only if it is an array of exactly four
\* elements: a byte string, a map, a byte string, a byte string.
C25_EnvelopeShape ==
    Decoded =>
        LET e == Envelope(vinput.params) IN
        /\ e.valid
        /\ e.x.enc = "cbor"
        /\ e.x.x.t = "Array"
        /\ Len(e.x.x.v) = 4
        /\ e.x.x.v[1].t = "Bytes"
        /\ e.x.x.v[2].t = "Map"
        /\ e.x.x.v[3].t = "Bytes"
        /\ e.x.x.v[4].t = "Bytes"

\* C26: in a decoded document each of public_key, user_data and nonce is
\* "not present" when the payload has no such key and is the byte string
\* of the key when it has; no payload whose value for one of these keys is
\* not a byte string is decoded.
C26_OptionalKeysTyped ==
    Decoded =>
        /\ \A i \in 1..Len(PayloadEntries) :
             PayloadEntries[i].k \in OptionalKeys
               => /\ PayloadEntries[i].v.t = "Bytes"
                  /\ OptionalField(PayloadEntries[i].k) = Some(PayloadEntries[i].v.v)
        /\ \A key \in OptionalKeys :
             (\A i \in 1..Len(PayloadEntries) : PayloadEntries[i].k # key)
               => OptionalField(key) = None

\* The envelope given in is well formed down to its payload map, so that
\* decoding reaches parse_attestation_document's loop.
PayloadReached ==
    /\ vran # <<>>
    /\ LET e == Envelope(vinput.params) IN
       /\ e.valid
       /\ e.x.enc = "cbor"
       /\ e.x.x.t = "Array"
       /\ Len(e.x.x.v) = 4
       /\ \A i \in {1, 3, 4} : e.x.x.v[i].t = "Bytes"
       /\ e.x.x.v[3].v.enc = "cbor"
       /\ e.x.x.v[3].v.x.t = "Map"
\* The payload encodes its timestamp, or a PCR index, as a negative
\* integer.
NegativeEncoded ==
    \E i \in 1..Len(PayloadEntries) :
        LET e == PayloadEntries[i] IN
        \/ e.k = "timestamp" /\ e.v.t = "Integer" /\ e.v.v < 0
        \/ /\ e.k = "pcrs"
           /\ e.v.t = "Map"
           /\ \E j \in 1..Len(e.v.v) :
                e.v.v[j].k.t = "Integer" /\ e.v.v[j].k.v < 0

\* C27: a payload that encodes the timestamp or a PCR index as a negative
\* integer is refused by the decoder with the error of that field, and no
\* decoded document holds a negative timestamp or PCR index.
C27_NegativeIntegersRefused ==
    /\ (PayloadReached /\ NegativeEncoded)
         => /\ FailedIn("Decode")
            /\ vresult.r \in {AVF(M("Invalid timestamp: negative value")),
                              AVF(M("Invalid PCR index: negative value"))}
    /\ Decoded
         => /\ vdecoded.v.doc.timestamp >= 0
            /\ \A i \in DOMAIN vdecoded.v.doc.pcrs : i >= 0

C27_Witness ==
    /\ PayloadReached
    /\ NegativeEncoded
    /\ vresult.done
    /\ vresult.r = AVF(M("Invalid PCR index: negative value"))

\* C28: every failure of the document-signature stage is the one error
\* "Signature verification failed".
C28_SignatureErrorOpaque ==
    FailedIn("SignatureVerify")
        => vresult.r = AVF(M("Signature verification failed"))

\* The document the payload built from params encodes, field by field.
EncodedDocument(p) ==
    [module_id |-> p.mod,
     timestamp |-> 5,
     digest |-> <<83>>,
     pcrs |-> IF p.pcrs = "one" THEN (0 :> PcrA)
              ELSE (0 :> PcrA) @@ (1 :> PcrB),
     certificate |-> ChainOf(p.chain).certificate,
     cabundle |-> ChainOf(p.chain).cabundle,
     public_key |-> CASE p.pk = "absent" -> None
                      [] p.pk = "pk" -> Some(RawBytes(Fill(KeyLen, PowMod(9, 2))))
                      [] p.pk = "pk2" -> Some(RawBytes(Fill(KeyLen, PowMod(9, 3))))
                      [] p.pk = "short" -> Some(RawBytes(Fill(16, PowMod(9, 2)))),
     user_data |-> IF p.fault = "userdata" THEN Some(RawBytes(<<4>>)) ELSE None,
     nonce |-> CASE p.nonce = "absent" -> None
                 [] p.nonce = "N1" -> Some(RawBytes(N1))
                 [] p.nonce = "N2" -> Some(RawBytes(N2))
                 [] p.nonce = "badutf8" -> Some(RawBytes(BadUtf8))]

FailureClass(h) ==
    IF pc[h] # "failed" THEN "none"
    ELSE IF att[h].some
    THEN (IF att[h].v.outcome = "ok" THEN "attestation invalid"
          ELSE "could not fetch attestation")
    ELSE IF ~kx[h].some THEN "none"
    ELSE IF kx[h].v.outcome # "ok" THEN "key exchange transport failure"
    ELSE IF kx[h].v.wire # "ok" \/ Len(kx[h].v.pt) # KeyLen
    THEN "session key malformed"
    ELSE "other"

\* C11: two failed handshakes whose failures are of different classes
\* among the four return errors of different variants.
C11_FailureClassesDistinct ==
    \A g \in Tasks, h \in Tasks :
        ( /\ FailureClass(g) \notin {"none", "other"}
          /\ FailureClass(h) \notin {"none", "other"}
          /\ FailureClass(g) # FailureClass(h) )
        => result[g].r.kind # result[h].r.kind

\* C12: a handshake whose attestation document is valid but carries no
\* public key fails with a KeyExchange error, having sent no key-exchange
\* request and stored no session.
C12_MissingKeyIsKeyExchangeError ==
    \A h \in Tasks :
        ( /\ att[h].some
          /\ att[h].v = [outcome |-> "ok",
                         params |-> [GoodParams EXCEPT !.pk = "absent"]]
          /\ nonce[h] = N1 )
        => /\ pc[h] = "failed"
           /\ result[h].r.kind = "KeyExchange"
           /\ secret[h] = 0
           /\ ~kx[h].some

\* Task h's call of perform_attestation_handshake has not returned to an
\* idle task and was not dropped: its locals are those of the call.
InHandshake(h) == pc[h] \in {"attest_wait", "kx_wait", "done", "failed"}

\* Task h's call got to its verification step (client.rs 69-76): the
\* attestation request was answered with a document.
VerificationRan(h) ==
    \/ att[h].some /\ att[h].v.outcome = "ok"
    \/ pc[h] = "kx_wait"
    \/ kx[h].some

\* Task h's call sent its key-exchange request (client.rs 146).
KeyExchangeSent(h) == pc[h] = "kx_wait" \/ kx[h].some

\* Task h's attestation request and, once sent, its key-exchange request
\* carry the nonce the call drew, and that nonce was drawn once.
NonceSent(h) ==
    /\ requests[h].fetch = Some(nonce[h])
    /\ KeyExchangeSent(h) =>
          /\ requests[h].key_exchange.some
          /\ requests[h].key_exchange.v.nonce = nonce[h]
    /\ Cardinality({i \in DOMAIN drawn : drawn[i] = nonce[h]}) = 1

\* No nonce was drawn twice.
NoncesDistinct ==
    \A i \in DOMAIN drawn, j \in DOMAIN drawn : i # j => drawn[i] # drawn[j]

\* C30: each call of perform_attestation_handshake draws one fresh nonce
\* and uses that value in its attestation request, as the expected nonce
\* of its verification step, and in its key-exchange request; no two
\* handshakes use the same nonce.
C30_OneFreshNonceThreeUses ==
    /\ \A h \in Tasks :
          InHandshake(h) =>
            /\ NonceSent(h)
            /\ VerificationRan(h) => requests[h].expected = Some(nonce[h])
    /\ NoncesDistinct

\* What holds of the three uses: the two requests always carry the call's
\* nonce, the verification step is given it by a client that is not in
\* mock mode and is given no nonce by one that is, and nonces differ.
NonceUsesByMode ==
    /\ \A h \in Tasks :
          InHandshake(h) =>
            /\ NonceSent(h)
            /\ VerificationRan(h) =>
                  requests[h].expected = ExpectedNonce(use_mock_attestation, nonce[h])
    /\ NoncesDistinct

\* Task h's attestation request was answered with a document that its
\* verification step accepts and that carries a public key.
Accepted(h, answer) ==
    /\ answer.some
    /\ answer.v.outcome = "ok"
    /\ \E doc \in HandshakeVerify(use_mock_attestation, allow_debug,
                                   Envelope(answer.v.params), nonce[h]) :
          doc.ok /\ doc.v.public_key.some

\* C31: a handshake sends its attestation request once, when it starts,
\* and its key-exchange request at most once, in the step in which its
\* attestation document is accepted and found to carry a public key; the
\* requests it has sent stay as they are until the call is over, and a
\* handshake that has failed sends nothing.
C31_LinearNoRetries ==
    [][ \A h \in Tasks :
          /\ requests'[h].fetch # requests[h].fetch =>
                \/ pc[h] = "idle" /\ pc'[h] = "attest_wait"
                \/ requests'[h] = NoRequests /\ pc'[h] \in {"idle", "cancelled"}
          /\ requests'[h].key_exchange # requests[h].key_exchange =>
                \/ /\ pc[h] = "attest_wait" /\ pc'[h] = "kx_wait"
                   /\ ~requests[h].key_exchange.some
                   /\ Accepted(h, att'[h])
                   /\ requests'[h].key_exchange.v.client_public_key
                        = B64(x25519_public(secret'[h]))
                \/ requests'[h] = NoRequests /\ pc'[h] \in {"idle", "cancelled"}
          /\ pc'[h] = "kx_wait" => requests'[h].key_exchange.some
          /\ (pc'[h] = "failed" /\ att'[h].some) => ~requests'[h].key_exchange.some
          /\ pc[h] \in {"failed", "done"} =>
                /\ pc'[h] \in {pc[h], "idle"}
                /\ requests'[h] \in {requests[h], NoRequests} ]_vars

\* One handshake failed at its attestation document and sent no
\* key-exchange request; the other had its document accepted and waits
\* for the answer to the one key-exchange request it sent.
C31_Witness ==
    /\ pc[1] = "failed" /\ att[1].some /\ att[1].v.outcome = "ok"
    /\ requests[1].fetch.some /\ ~requests[1].key_exchange.some
    /\ pc[2] = "kx_wait" /\ Accepted(2, att[2])
    /\ requests[2].fetch.some /\ requests[2].key_exchange.some

\* C36: when a handshake's key-exchange request is answered, the enclave
\* key it derives its shared secret with (the client's server_public_key,
\* as read in that step) is the public key of the attestation document
\* this handshake fetched and accepted, whatever another handshake on the
\* same client did meanwhile.
C36_OwnDocumentKey ==
    [][ \A h \in Tasks :
          ( /\ pc[h] = "kx_wait" /\ pc'[h] # "kx_wait"
            /\ kx'[h].some /\ kx'[h].v.outcome = "ok" )
          => \E doc \in HandshakeVerify(use_mock_attestation, allow_debug,
                                         Envelope(att[h].v.params), nonce[h]) :
                /\ doc.ok
                /\ doc.v.public_key.some
                /\ server_public_key = Some(doc.v.public_key.v.x) ]_vars

\* One client built from any of the base URLs, with handshakes run on it
\* one after the other (SpecMode).
ModeInit ==
    /\ VerifyIdle
    /\ StoreNew
    /\ CryptoIdle
    /\ ApiIdle
    /\ PointIdle
    /\ SideIdle
    /\ \E url \in BaseUrls : Constructed(url)
    /\ allow_debug \in BOOLEAN
    /\ ClientNew

ModeNext ==
    \/ Start(1)
    \/ AttestationResponse(1)
    \/ KeyExchangeAnswer(1)
    \/ Cancel(1)
    \/ Return(1)

SpecMode == ModeInit /\ [][ModeNext]_vars

\* The client's base URL names the local machine.
LocalBaseUrl == contains(base_url, Localhost) \/ contains(base_url, Loopback)

\* C35: the mock flag and the base URL of a client never change; in the
\* verification step of each handshake the full verifier is run, with the
\* handshake's nonce, exactly when the base URL contains neither
\* "localhost" nor "127.0.0.1", and then the handshake goes on exactly when
\* the verifier returns a document with a public key; with such a base
\* URL the document is only parsed by parse_mock_attestation.
C35_MockModeFromBaseUrl ==
    [][ /\ use_mock_attestation' = use_mock_attestation
        /\ base_url' = base_url
        /\ \A h \in Tasks :
              ( /\ pc[h] = "attest_wait" /\ pc'[h] # "attest_wait"
                /\ att'[h].some /\ att'[h].v.outcome = "ok" )
              => LET document_b64 == Envelope(att'[h].v.params) IN
                 /\ requests'[h].expected.some <=> ~LocalBaseUrl
                 /\ ~LocalBaseUrl =>
                      ( pc'[h] = "kx_wait" <=>
                          \E doc \in verify_attestation_document(
                                         AttestationVerifier(None, allow_debug),
                                         document_b64, nonce[h]) :
                              doc.ok /\ doc.v.public_key.some )
                 /\ LocalBaseUrl =>
                      ( pc'[h] = "kx_wait" <=>
                          /\ parse_mock_attestation(document_b64).ok
                          /\ parse_mock_attestation(document_b64).v.public_key.some )
      ]_vars

\* A client built for http://127.0.0.1:3000/ let a document with a forged
\* leaf through to the key exchange.
C35_Witness ==
    /\ base_url = trim_end_slashes(LoopbackUrl)
    /\ ~contains(base_url, Localhost)
    /\ pc[1] = "kx_wait"
    /\ att[1].v.params.chain = "forgedleaf"
    /\ ~requests[1].expected.some

(***************************************************************************)
(* crypto.rs under its callers (SpecCrypto): values are sealed with        *)
(* encrypt_data, byte strings are opened with decrypt_data and             *)
(* decrypt_session_key, and two key pairs agree on a secret.               *)
(***************************************************************************)
MaxSeals == 2
MaxPlain == 2
MaxSecret == 3

\* The keys and plaintexts sealed: every plaintext of up to MaxPlain
\* bytes, the empty one included, and one of the length of a session key.
Sealings ==
    [key : {K32a, K32b},
     plaintext : (UNION { [1..n -> {7, 200}] : n \in 0..MaxPlain })
                 \cup {Fill(KeyLen, 9)}]

\* The byte strings handed to decrypt_data and decrypt_session_key: a
\* sealed value as it is, with its last byte altered, or cut to its first
\* n bytes; and for the session key a string that is not base64.
Openings ==
    LET Wires(sealed) ==
            { [how |-> "whole", wire |-> B64(sealed)],
              [how |-> "garbled", wire |-> BadB64] }
            \cup { [how |-> "altered",
                    wire |-> B64([sealed EXCEPT ![Len(sealed)] = (@ + d) % 256])] :
                     d \in {1, 128} }
            \cup { [how |-> "cut", wire |-> B64(SubSeq(sealed, 1, n))] :
                     n \in 0..NonceLen }
    IN
    UNION { { [mode |-> m, key |-> k, wire |-> w.wire, how |-> w.how, of |-> i,
               stage |-> IF m = "data" THEN "Length" ELSE "Base64",
               aead |-> 0, r |-> NotRun] :
                m \in {"data", "session_key"}, k \in {K32a, K32b},
                w \in Wires(seals[i]) } : i \in 1..Len(seals) }

\* What the call under way returns.
OpenValue ==
    IF opening.mode = "data" THEN decrypt_data(opening.key, opening.wire.x)
    ELSE decrypt_session_key(opening.key, opening.wire)

\* encrypt_data(key, plaintext) is called.  A run seals some values and
\* then opens one byte string, or makes one key agreement.
Seal ==
    /\ Len(seals) < MaxSeals
    /\ opening.stage = "Idle"
    /\ ~dh.done
    /\ seals' = Append(seals,
                       encrypt_data(sealing.key,
                                    generate_random_bytes(NonceLen, Len(seals) + 1),
                                    sealing.plaintext).v)
    /\ UNCHANGED <<sealing, opening, dh, verifyVars, clientVars, storeVars, apiVars, wireVars, pointVars, sideVars>>

\* decrypt_data or decrypt_session_key is called.
OpenStart ==
    /\ opening.stage = "Idle"
    /\ \E o \in Openings :
         /\ o.mode = "data" => o.how # "garbled"
         /\ opening' = o
    /\ UNCHANGED <<sealing, seals, dh, verifyVars, clientVars, storeVars, apiVars, wireVars, pointVars, sideVars>>

\* decrypt_session_key, line 104: BASE64.decode
OpenBase64 ==
    /\ opening.stage = "Base64"
    /\ opening' = IF opening.wire.valid
                  THEN [opening EXCEPT !.stage = "Length"]
                  ELSE [opening EXCEPT !.stage = "Done", !.r = Returned(OpenValue)]
    /\ UNCHANGED <<sealing, seals, dh, verifyVars, clientVars, storeVars, apiVars, wireVars, pointVars, sideVars>>

\* OpenLength as it would be without the test of the length.
OpenLengthUntested ==
    /\ opening.stage = "Length"
    /\ opening' = [opening EXCEPT !.stage = "Aead"]
    /\ UNCHANGED <<sealing, seals, dh, verifyVars, clientVars, storeVars, apiVars, wireVars, pointVars, sideVars>>

\* decrypt_data, lines 87-89, and decrypt_session_key, lines 106-110: the
\* test of the length.
OpenLength ==
    /\ opening.stage = "Length"
    /\ opening' = IF Len(opening.wire.x) < NonceLen
                  THEN [opening EXCEPT !.stage = "Done", !.r = Returned(OpenValue)]
                  ELSE [opening EXCEPT !.stage = "Aead"]
    /\ UNCHANGED <<sealing, seals, dh, verifyVars, clientVars, storeVars, apiVars, wireVars, pointVars, sideVars>>

\* decrypt_data, lines 91-99, and decrypt_session_key, lines 112-128: the
\* cipher is made and run, and the call returns.
OpenAead ==
    /\ opening.stage = "Aead"
    /\ opening' = [opening EXCEPT !.stage = "Done", !.aead = 1,
                                  !.r = Returned(OpenValue)]
    /\ UNCHANGED <<sealing, seals, dh, verifyVars, clientVars, storeVars, apiVars, wireVars, pointVars, sideVars>>

\* Two key pairs are generated (generate_key_pair) and each side calls
\* derive_shared_secret with its secret and the other's public key.
DeriveBoth ==
    /\ ~dh.done
    /\ seals = <<>>
    /\ \E a \in 1..MaxSecret, b \in 1..MaxSecret :
         dh' = Returned([a |-> a, b |-> b,
                         ab |-> derive_shared_secret(a, x25519_public(b)),
                         ba |-> derive_shared_secret(b, x25519_public(a))])
    /\ UNCHANGED <<sealing, seals, opening, verifyVars, clientVars, storeVars,
                   apiVars, wireVars, pointVars, sideVars>>

CryptoInit ==
    /\ VerifyIdle
    /\ ClientIdle
    /\ StoreNew
    /\ ApiIdle
    /\ PointIdle
    /\ SideIdle
    /\ sealing \in Sealings
    /\ seals = <<>>
    /\ opening = [stage |-> "Idle"]
    /\ dh = NotRun

CryptoNext ==
    \/ Seal
    \/ OpenStart
    \/ OpenBase64
    \/ OpenLength
    \/ OpenAead
    \/ DeriveBoth

SpecCrypto == CryptoInit /\ [][CryptoNext]_vars

(***************************************************************************)
(* Properties of crypto.rs (SpecCrypto).                                   *)
(***************************************************************************)
\* A call of decrypt_data / decrypt_session_key has returned.
Opened(mode) == opening.stage = "Done" /\ opening.mode = mode

\* C16: decrypt_data under the sealing key, of a value encrypt_data
\* returned for a plaintext, returns exactly that plaintext, the empty
\* plaintext included.
C16_RoundTrip ==
    (Opened("data") /\ opening.how = "whole" /\ opening.key = sealing.key)
    => opening.r = Returned(Ok(sealing.plaintext))

\* The seal of the empty plaintext has been opened.
C16_Witness ==
    /\ Opened("data") /\ opening.how = "whole" /\ opening.key = sealing.key
    /\ sealing.plaintext = <<>>
    /\ opening.r = Returned(Ok(<<>>))

\* C17: decrypt_data of a sealed value under another key, or of a sealed
\* value whose last byte was altered, returns the one Decryption error and
\* no plaintext.
C17_TagMismatchIsOneError ==
    ( /\ Opened("data")
      /\ \/ opening.how = "altered"
         \/ opening.how = "whole" /\ opening.key # sealing.key )
    => opening.r = Returned(Err("Decryption", M("Decryption failed")))

\* A sealed value was opened under the other key and refused.
C17_Witness ==
    /\ Opened("data") /\ opening.how = "whole" /\ opening.key # sealing.key
    /\ Len(sealing.plaintext) = MaxPlain
    /\ ~opening.r.r.ok

\* C18: decrypt_data and decrypt_session_key return a Decryption error for
\* every input of fewer than 12 bytes (the session key's after base64
\* decoding), and have not run the cipher when they do.
C18_ShortInputRejectedFirst ==
    ( /\ opening.stage \in {"Aead", "Done"}
      /\ opening.wire.valid
      /\ Len(opening.wire.x) < NonceLen )
    => /\ opening.stage = "Done"
       /\ opening.aead = 0
       /\ ~opening.r.r.ok
       /\ opening.r.r.kind = "Decryption"

\* decrypt_session_key has refused 11 bytes.
C18_Witness ==
    /\ Opened("session_key")
    /\ opening.wire.valid
    /\ Len(opening.wire.x) = NonceLen - 1
    /\ opening.r = Returned(Err("Decryption", M("Encrypted session key too short")))

\* C19: each value encrypt_data returns starts with the 12 bytes drawn for
\* that call and opens to the plaintext, and no two of them are equal,
\* nor do two start with the same 12 bytes.
C19_FreshNoncePerSeal ==
    \A i \in 1..Len(seals) :
        /\ Len(seals[i]) >= NonceLen
        /\ SubSeq(seals[i], 1, NonceLen) = generate_random_bytes(NonceLen, i)
        /\ decrypt_data(sealing.key, seals[i]) = Ok(sealing.plaintext)
        /\ \A j \in 1..Len(seals) :
             i # j => /\ seals[i] # seals[j]
                      /\ SubSeq(seals[i], 1, NonceLen) # SubSeq(seals[j], 1, NonceLen)

\* The same plaintext has been sealed twice under the same key.
C19_Witness ==
    /\ Len(seals) = 2
    /\ seals[1] # seals[2]
    /\ sealing.plaintext # <<>>

\* C20: for two generated key pairs A and B, derive_shared_secret(A.secret,
\* B.public) and derive_shared_secret(B.secret, A.public) are the same 32
\* bytes.
C20_SharedSecretSymmetric ==
    dh.done => /\ dh.r.ab = dh.r.ba
               /\ Len(dh.r.ab) = KeyLen

\* Two different key pairs have agreed.
C20_Witness ==
    /\ dh.done
    /\ dh.r.a # dh.r.b
    /\ dh.r.ab = dh.r.ba


(***************************************************************************)
(* The client's API calls and the SessionManager's tokens (SpecApi,        *)
(* SpecSession): session.rs 38-103, client.rs 293-381, 481-505, 581-616.   *)
(* One caller makes one API call at a time while task 1 may be running a   *)
(* handshake.  Strings that travel encrypted are byte strings.             *)
(***************************************************************************)
MaxApiCalls == 3

A1 == <<65, 49>>
A2 == <<65, 50>>
R1 == <<82, 49>>

\* clear_session as it would be if it left the stored session in place.
clear_sessionKept == UNCHANGED <<session, tokens>>

\* session.rs 38-44.
clear_session ==
    /\ session' = None
    /\ UNCHANGED tokens

\* session.rs 46-56.
set_tokens(access_token, refresh_token) ==
    /\ tokens' = Some([access_token |-> access_token,
                       refresh_token |-> refresh_token])
    /\ UNCHANGED session

\* session.rs 65-77.
get_access_token == IF tokens.some THEN Some(tokens.v.access_token) ELSE None
get_refresh_token == IF tokens.some THEN tokens.v.refresh_token ELSE None

\* session.rs 79-89: the store after the call, and what the call returns.
update_access_token(access_token) ==
    /\ tokens' = IF tokens.some
                 THEN Some([tokens.v EXCEPT !.access_token = access_token])
                 ELSE tokens
    /\ UNCHANGED session
update_access_tokenResult ==
    IF tokens.some THEN Ok(TRUE)
    ELSE Err("Authentication", M("No tokens to update"))

\* clear_tokens as it would be if it emptied the whole manager.
clear_tokensAndSession ==
    /\ tokens' = None
    /\ session' = None

\* session.rs 91-97.
clear_tokens ==
    /\ tokens' = None
    /\ UNCHANGED session

\* What the server may answer to an encrypted request: a transport
\* failure, an error status, a body that is not the expected JSON, or a
\* response sealed under the session key (or under another key) whose
\* plaintext carries an access and a refresh token.
ApiOutcomes ==
    { [outcome |-> o, key |-> "session", access |-> A1] :
        o \in {"send", "status", "json"} }
    \cup
    { [outcome |-> "ok", key |-> k, access |-> a] :
        k \in {"session"}, a \in {A1, A2} }
    \cup
    { [outcome |-> "ok", key |-> "other", access |-> A1] }

\* client.rs 357-380, with the response in hand: the server sealed its
\* answer under the key of the session the request named (or under
\* another key) and the call opens it with session_key.  Ok(plaintext) or
\* the error returned.
ApiFinishWith(server_key, session_key, o) ==
    IF o.outcome \in {"send", "json"} THEN Err("Http", M(o.outcome))
    ELSE IF o.outcome = "status" THEN Err("Api", M(o.outcome))
    ELSE LET sealing_key == IF o.key = "session" THEN server_key
                            ELSE Fill(KeyLen, 9)
             encrypted == encrypt_data(sealing_key, Fill(NonceLen, 5),
                                       o.access \o R1).v
             decrypted == decrypt_data(session_key, encrypted)
         IN
         IF ~decrypted.ok THEN decrypted
         ELSE IF Len(decrypted.v) # 2 * Len(R1)
         THEN Err("Serialization", M("json"))
         ELSE Ok([access_token |-> SubSeq(decrypted.v, 1, Len(R1)),
                  refresh_token |-> SubSeq(decrypted.v, Len(R1) + 1,
                                           2 * Len(R1))])

\* The same with the session the call snapshotted at its start.
encrypted_api_callFinish(snapshot, o) ==
    ApiFinishWith(snapshot.session_key, snapshot.session_key, o)

\* What an API action leaves alone.
ApiFrame ==
    UNCHANGED <<base_url, use_mock_attestation, allow_debug, server_public_key, started,
                pc, nonce, att, secret, kx, result,
                verifyVars, storeVars, cryptoVars, wireVars, pointVars, sideVars>>

\* ApiFails as it would be if a failing logout cleared the store all the
\* same.
ApiFailsClearsAll(op, r) ==
    /\ api_pc' = "done"
    /\ api_result' = Returned(r)
    /\ IF op = "logout" THEN session' = None /\ tokens' = None
       ELSE UNCHANGED <<session, tokens>>

\* ApiFails as it would be if a failing call dropped the tokens.
ApiFailsDropsTokens(op, r) ==
    /\ api_pc' = "done"
    /\ api_result' = Returned(r)
    /\ tokens' = None
    /\ UNCHANGED session

\* The API call returns r without having touched the manager.
ApiFails(op, r) ==
    /\ api_pc' = "done"
    /\ api_result' = Returned(r)
    /\ UNCHANGED <<session, tokens>>

\* client.rs 581-586, 600-605, 299-345: the caller calls login,
\* refresh_token, logout or another encrypted endpoint; the call reads the
\* refresh token (refresh_token, logout), snapshots the session, seals the
\* body, reads the access token and sends the request.
ApiBegin ==
    /\ api_pc = "idle"
    /\ api_calls < MaxApiCalls
    /\ api_calls' = api_calls + 1
    /\ \E op \in {"call", "login", "refresh_token", "logout"} :
         IF op \in {"refresh_token", "logout"} /\ ~get_refresh_token.some
         THEN /\ api_call' = [NoCall EXCEPT !.op = op]
              /\ ApiFails(op, Err("Authentication", M("No refresh token available")))
         ELSE IF ~get_session.some
         THEN /\ api_call' = [NoCall EXCEPT !.op = op]
              /\ ApiFails(op, Err("Session",
                     M("No active session. Call perform_attestation_handshake first")))
         ELSE /\ api_call' =
                    [op |-> op, snap |-> get_session, auth |-> get_access_token,
                     x_session_id |-> Some(get_session.v.session_id),
                     body |-> encrypt_data(get_session.v.session_key,
                                  generate_random_bytes(NonceLen, api_calls + 1),
                                  IF op \in {"refresh_token", "logout"}
                                  THEN get_refresh_token.v ELSE <<>>).v]
              /\ api_pc' = "wait"
              /\ UNCHANGED <<api_result, session, tokens>>
    /\ ApiFrame

\* ApiAnswer as it would be if the response were opened with the key of
\* the session stored when the response arrives.
ApiAnswerRereadsSession ==
    /\ api_pc = "wait"
    /\ \E o \in ApiOutcomes :
         LET r == IF get_session.some
                  THEN ApiFinishWith(api_call.snap.v.session_key,
                                     get_session.v.session_key, o)
                  ELSE Err("Session", M("No active session"))
         IN
         IF ~r.ok THEN ApiFails(api_call.op, r)
         ELSE IF api_call.op = "logout"
         THEN /\ clear_session
              /\ api_pc' = "clearing"
              /\ UNCHANGED api_result
         ELSE /\ IF api_call.op = "call" THEN UNCHANGED <<session, tokens>>
                 ELSE set_tokens(r.v.access_token, Some(r.v.refresh_token))
              /\ api_pc' = "done"
              /\ api_result' = Returned(Ok(r.v))
    /\ UNCHANGED <<api_call, api_calls>>
    /\ ApiFrame

\* client.rs 357-380, 498-504, 593-597, 612-613: the request is answered.
\* login and refresh_token store the tokens delivered; logout begins
\* clear_all with clear_session.
ApiAnswer ==
    /\ api_pc = "wait"
    /\ \E o \in ApiOutcomes :
         LET r == encrypted_api_callFinish(api_call.snap.v, o) IN
         IF ~r.ok THEN ApiFails(api_call.op, r)
         ELSE IF api_call.op = "logout"
         THEN /\ clear_session
              /\ api_pc' = "clearing"
              /\ UNCHANGED api_result
         ELSE /\ IF api_call.op = "call" THEN UNCHANGED <<session, tokens>>
                 ELSE set_tokens(r.v.access_token, Some(r.v.refresh_token))
              /\ api_pc' = "done"
              /\ api_result' = Returned(Ok(r.v))
    /\ UNCHANGED <<api_call, api_calls>>
    /\ ApiFrame

\* session.rs 101-102, client.rs 613-615: clear_all goes on to
\* clear_tokens, and logout returns Ok.
LogoutClearTokens ==
    /\ api_pc = "clearing"
    /\ clear_tokens
    /\ api_pc' = "done"
    /\ api_result' = Returned(Ok(TRUE))
    /\ UNCHANGED <<api_call, api_calls>>
    /\ ApiFrame

\* The caller has the result and can call again.
ApiReturn ==
    /\ api_pc = "done"
    /\ api_pc' = "idle"
    /\ api_call' = NoCall
    /\ api_result' = NotRun
    /\ UNCHANGED <<session, tokens, api_calls>>
    /\ ApiFrame

\* What a step of another task's logout, or of the reading task, leaves
\* alone besides the store.
SideFrame ==
    UNCHANGED <<base_url, use_mock_attestation, allow_debug, server_public_key,
                started, pc, nonce, att, secret, kx, result,
                verifyVars, storeVars, cryptoVars, apiVars, wireVars, pointVars>>

\* client.rs 600-610: another task calls logout on the same client; it
\* holds a refresh token and a session, and sends its request.
OtherLogoutBegin ==
    /\ other_pc = "idle"
    /\ get_refresh_token.some
    /\ get_session.some
    /\ other_pc' = "wait"
    /\ UNCHANGED <<session, tokens, reader_pc, seen>>
    /\ SideFrame

\* client.rs 608-613, session.rs 100: its request fails and it returns
\* the error, or succeeds and clear_all begins with clear_session.
OtherLogoutAnswer ==
    /\ other_pc = "wait"
    /\ \/ other_pc' = "over" /\ UNCHANGED <<session, tokens>>
       \/ other_pc' = "clearing" /\ clear_session
    /\ UNCHANGED <<reader_pc, seen>>
    /\ SideFrame

\* session.rs 101: its clear_all goes on to clear_tokens.
OtherLogoutClearTokens ==
    /\ other_pc = "clearing"
    /\ clear_tokens
    /\ other_pc' = "over"
    /\ UNCHANGED <<reader_pc, seen>>
    /\ SideFrame

\* session.rs 58-63.
get_tokens == tokens
\* A clear_all is between its clear_session and its clear_tokens.
ClearAllUnderWay == api_pc = "clearing" \/ other_pc = "clearing"

\* session.rs 31-36: a task reads the session.
ReadSession ==
    /\ reader_pc = "idle"
    /\ seen' = [NothingSeen EXCEPT !.session = get_session,
                                   !.clearing = ClearAllUnderWay]
    /\ reader_pc' = "session_read"
    /\ UNCHANGED <<session, tokens, other_pc>>
    /\ SideFrame

\* session.rs 58-63: and then the tokens.
ReadTokens ==
    /\ reader_pc = "session_read"
    /\ seen' = [seen EXCEPT !.tokens = get_tokens,
                            !.clearing = seen.clearing /\ ClearAllUnderWay]
    /\ reader_pc' = "done"
    /\ UNCHANGED <<session, tokens, other_pc>>
    /\ SideFrame

\* The reading task is done with what it read.
ReadOver ==
    /\ reader_pc = "done"
    /\ reader_pc' = "idle"
    /\ seen' = NothingSeen
    /\ UNCHANGED <<session, tokens, other_pc>>
    /\ SideFrame

\* A new client (production configuration), no call under way.
ApiInit ==
    /\ VerifyIdle
    /\ StoreNew
    /\ CryptoIdle
    /\ ApiIdle
    /\ PointIdle
    /\ SideIdle
    /\ ClientIdle

ApiNext ==
    \/ Start(1)
    \/ AttestationResponse(1)
    \/ KeyExchangeAnswer(1)
    \/ Cancel(1)
    \/ Return(1)
    \/ ApiBegin
    \/ ApiAnswer
    \/ LogoutClearTokens
    \/ ApiReturn

SpecApi == ApiInit /\ [][ApiNext]_vars

SharedNext ==
    \/ Start(1)
    \/ AttestationResponse(1)
    \/ KeyExchangeAnswer(1)
    \/ Return(1)
    \/ ApiBegin
    \/ ApiAnswer
    \/ LogoutClearTokens
    \/ ApiReturn
    \/ OtherLogoutBegin
    \/ OtherLogoutAnswer
    \/ OtherLogoutClearTokens

SpecShared == ApiInit /\ [][SharedNext]_vars

ReadNext ==
    \/ Start(1)
    \/ AttestationResponse(1)
    \/ KeyExchangeAnswer(1)
    \/ ApiBegin
    \/ ApiAnswer
    \/ LogoutClearTokens
    \/ ApiReturn
    \/ ReadSession
    \/ ReadTokens
    \/ ReadOver

SpecRead == ApiInit /\ [][ReadNext]_vars

\* The public methods of a SessionManager called directly (session.rs
\* 19-97), each one access under its lock.
ManagerCalls ==
    { [op |-> "set_session"], [op |-> "clear_session"],
      [op |-> "set_tokens"], [op |-> "update_access_token"],
      [op |-> "clear_tokens"] }

ManagerCall ==
    /\ api_pc = "idle"
    /\ api_calls < MaxApiCalls
    /\ api_calls' = api_calls + 1
    /\ \E c \in ManagerCalls :
         /\ api_call' = [NoCall EXCEPT !.op = c.op]
         /\ api_result' = Returned(IF c.op = "update_access_token"
                                   THEN update_access_tokenResult ELSE Ok(TRUE))
         /\ CASE c.op = "set_session" ->
                   set_session(3, K32b) /\ UNCHANGED tokens
              [] c.op = "clear_session" -> clear_session
              [] c.op = "set_tokens" ->
                   \E r \in {None, Some(R1)} : set_tokens(A2, r)
              [] c.op = "update_access_token" -> update_access_token(A1)
              [] c.op = "clear_tokens" -> clear_tokens
    /\ api_pc' = "done"
    /\ ApiFrame

SessionNext ==
    \/ Start(1)
    \/ AttestationResponse(1)
    \/ KeyExchangeAnswer(1)
    \/ Cancel(1)
    \/ Return(1)
    \/ ApiBegin
    \/ ApiAnswer
    \/ LogoutClearTokens
    \/ ApiReturn
    \/ ManagerCall

SpecSession == ApiInit /\ [][SessionNext]_vars

\* A step of the API caller that runs the named manager method.
Calls(ops) == api_pc = "idle" /\ api_pc' = "done" /\ api_call'.op \in ops
\* A step in which an API call enters encrypted_api_call.
EntersEncryptedCall ==
    /\ api_pc = "idle"
    /\ api_pc' # "idle"
    /\ \/ api_call'.op \in {"call", "login"}
       \/ api_call'.op \in {"refresh_token", "logout"} /\ get_refresh_token.some

\* C13: a step of a handshake (successful or failed), set_session and
\* clear_session leave the tokens as they were; set_tokens,
\* update_access_token and clear_tokens, called directly or by login,
\* refresh_token and logout, leave the session as it was; when the first
\* handshake of a new client completes a session exists and no access or
\* refresh token is held.
C13_IndependentLifecycles ==
    [][ /\ (pc' # pc) => tokens' = tokens
        /\ Calls({"set_session", "clear_session"}) => tokens' = tokens
        /\ Calls({"set_tokens", "update_access_token", "clear_tokens"})
             => session' = session
        /\ (api_pc = "wait" /\ api_pc' = "done"
                /\ api_call.op \in {"login", "refresh_token"})
             => session' = session
        /\ (api_pc = "clearing" /\ api_pc' = "done") => session' = session
        /\ (Completes(1) /\ api_calls = 0)
             => /\ get_session_id'.some
                /\ ~get_access_token'.some
                /\ ~get_refresh_token'.some ]_vars

C13_Witness ==
    /\ pc[1] = "done"
    /\ session = Some(DeliveredPair(kx[1].v))
    /\ api_pc = "done"
    /\ api_call.op = "clear_tokens"
    /\ tokens = None

\* C14: a new client has no session id; get_session_id comes to return an
\* id, or another id, only in the step that completes a handshake, and it
\* then returns the id the key-exchange response of that handshake
\* delivered.
C14_SessionIdOnlyFromHandshake ==
    /\ get_session_id = None
    /\ [][ /\ Completes(1)
             => get_session_id' = Some(DeliveredPair(kx'[1].v).session_id)
           /\ (~Completes(1) /\ get_session_id'.some)
             => get_session_id' = get_session_id ]_vars

C14_Witness ==
    /\ pc[1] = "done"
    /\ api_calls > 0
    /\ get_session_id = Some(DeliveredPair(kx[1].v).session_id)

\* C15: the answer to a successful logout clears the session and logout
\* returns Ok with no access and no refresh token held; from then on no
\* session is held until a handshake completes, and an API call that
\* enters encrypted_api_call while no session is held returns a Session
\* error without sending a request.
C15_LogoutClearsUntilHandshake ==
    [][ /\ (api_pc = "wait" /\ api_pc' = "clearing") => get_session_id' = None
        /\ (api_pc = "clearing" /\ api_pc' = "done")
             => /\ api_call.op = "logout"
                /\ api_result' = Returned(Ok(TRUE))
                /\ get_access_token' = None
                /\ get_refresh_token' = None
        /\ (get_session_id = None /\ ~Completes(1)) => get_session_id' = None
        /\ (EntersEncryptedCall /\ get_session_id = None)
             => /\ api_pc' = "done"
                /\ ~api_result'.r.ok
                /\ api_result'.r.kind = "Session"
                /\ api_call'.body = <<>> ]_vars

C15_Witness ==
    /\ api_pc = "done"
    /\ api_call.op = "logout"
    /\ api_result = Returned(Ok(TRUE))
    /\ api_call.snap.some
    /\ get_session_id = None
    /\ get_access_token = None
    /\ get_refresh_token = None

\* C37: an encrypted API call snapshots the stored session once, when it
\* starts: its x-session-id header carries the snapshot's id and its body
\* is sealed under the snapshot's key; while it waits for the response
\* what it holds does not change, whatever happens to the stored session;
\* and what it returns is what opening the response with the snapshot's
\* key gives.
C37_OneSnapshotPerCall ==
    [][ /\ (api_pc = "idle" /\ api_pc' = "wait") =>
              /\ session.some
              /\ api_call'.snap = session
              /\ api_call'.x_session_id = Some(session.v.session_id)
              /\ decrypt_data(session.v.session_key, api_call'.body).ok
        /\ (api_pc = "wait" /\ api_pc' = "wait") => api_call' = api_call
        /\ (api_pc = "wait" /\ api_pc' # "wait") =>
              /\ api_call' = api_call
              /\ \E o \in ApiOutcomes :
                    LET r == ApiFinishWith(api_call.snap.v.session_key,
                                           api_call.snap.v.session_key, o)
                    IN IF ~r.ok THEN api_result' = Returned(r)
                       ELSE IF api_call.op = "logout" THEN api_pc' = "clearing"
                       ELSE api_result' = Returned(Ok(r.v)) ]_vars

\* A call that started under a session returned the plaintext of its
\* response although another task's logout had cleared the session while
\* it was in flight.
C37_Witness ==
    /\ api_pc = "done"
    /\ api_call.op = "call"
    /\ api_call.snap.some
    /\ api_result.r.ok
    /\ session = None
    /\ other_pc \in {"clearing", "over"}

\* A call returned the plaintext of its response although a handshake had
\* replaced the session while it was in flight.
SessionReplacedInFlight ==
    /\ api_pc = "done"
    /\ api_call.op = "call"
    /\ api_result.r.ok
    /\ session.some
    /\ session # api_call.snap

\* C38: a call that enters encrypted_api_call while the store holds no
\* session returns the Session error "No active session" in that step:
\* it seals no body, names no session, sends no request, and the session
\* and the tokens are as they were.
C38_NoSessionNoRequest ==
    [][ (EntersEncryptedCall /\ ~get_session.some) =>
          /\ api_pc' = "done"
          /\ api_result' = Returned(Err("Session",
                 M("No active session. Call perform_attestation_handshake first")))
          /\ api_call'.snap = None
          /\ api_call'.x_session_id = None
          /\ api_call'.body = <<>>
          /\ session' = session
          /\ tokens' = tokens ]_vars

\* After another task's logout cleared the session, and before it cleared
\* the tokens, a call was refused for want of a session; the tokens are
\* still held.
C38_Witness ==
    /\ api_pc = "done"
    /\ api_call.op = "call"
    /\ ~api_result.r.ok
    /\ api_result.r.kind = "Session"
    /\ session = None
    /\ tokens.some
    /\ other_pc = "clearing"

\* C39: a logout that holds no refresh token returns an Authentication
\* error, and one that holds one but finds no session a Session error,
\* both without a request; a logout whose request fails returns that
\* error; each leaves the session and the tokens as they were.  Logout
\* clears the session only in the step in which its request is answered
\* with success, and the tokens in the step after.
C39_FailedLogoutKeepsStore ==
    [][ /\ (api_pc = "idle" /\ api_pc' = "done" /\ api_call'.op = "logout") =>
              /\ api_result'.r = IF ~get_refresh_token.some
                                 THEN Err("Authentication", M("No refresh token available"))
                                 ELSE Err("Session",
                                        M("No active session. Call perform_attestation_handshake first"))
              /\ get_refresh_token.some => ~get_session.some
              /\ api_call'.body = <<>>
              /\ session' = session
              /\ tokens' = tokens
        /\ (api_pc = "idle" /\ api_pc' = "wait" /\ api_call'.op = "logout") =>
              /\ session' = session
              /\ tokens' = tokens
        /\ (api_pc = "wait" /\ api_pc' = "done" /\ api_call.op = "logout") =>
              /\ ~api_result'.r.ok
              /\ session' = session
              /\ tokens' = tokens
        /\ (api_pc = "wait" /\ api_pc' = "clearing") =>
              /\ api_call.op = "logout"
              /\ \E o \in ApiOutcomes :
                    encrypted_api_callFinish(api_call.snap.v, o).ok
              /\ session' = None
              /\ tokens' = tokens
        /\ (api_pc = "clearing" /\ api_pc' # "clearing") =>
              /\ api_result' = Returned(Ok(TRUE))
              /\ tokens' = None
              /\ session' = session ]_vars

\* A logout whose request was answered with an error returned it; the
\* session it snapshotted and the tokens are still held.
C39_Witness ==
    /\ api_pc = "done"
    /\ api_call.op = "logout"
    /\ ~api_result.r.ok
    /\ api_result.r.kind \in {"Http", "Api"}
    /\ session = api_call.snap
    /\ session.some
    /\ get_refresh_token.some

\* What a task read with get_session and then get_tokens, both while one
\* clear_all was between its two steps.
ReadDuringClearAll == reader_pc = "done" /\ seen.clearing

At(bytes, i) == bytes[i + 1]
\* &bytes[from..to]: the slice and where in `bytes` it starts.
Slice(bytes, from, to) == [from |-> from, bytes |-> SubSeq(bytes, from + 1, to)]

\* The indices at which the first loop of extract_ec_point returns: a
\* 0x03, two bytes on a 0x00, then a 0x04 from which exactly expected
\* bytes remain.
BitStringHits(bytes, expected) ==
    {i \in 0..(Len(bytes) - 1) :
        /\ At(bytes, i) = 3
        /\ i + 3 < Len(bytes)
        /\ At(bytes, i + 2) = 0
        /\ At(bytes, i + 3) = 4
        /\ Len(bytes) - (i + 3) = expected}

\* The offsets the fallback tries, in order.
TypicalOffsets == <<23, 24, 25, 26, 27>>
\* The first of them, from the k-th on, at which a candidate of expected
\* bytes fits and starts with 0x04.
RECURSIVE TryOffsets(_, _, _)
TryOffsets(bytes, expected, k) ==
    IF k > Len(TypicalOffsets)
    THEN AVF(M("Failed to extract EC public key point"))
    ELSE LET offset == TypicalOffsets[k] IN
         IF offset + expected <= Len(bytes) /\ At(bytes, offset) = 4
         THEN Ok(Slice(bytes, offset, offset + expected))
         ELSE TryOffsets(bytes, expected, k + 1)

\* extract_ec_point(pubkey_bytes, expected_size), byte by byte.
extract_ec_pointBytes(bytes, expected) ==
    IF BitStringHits(bytes, expected) # {}
    THEN LET i == CHOOSE i \in BitStringHits(bytes, expected) :
                     \A j \in BitStringHits(bytes, expected) : i <= j
         IN Ok(Slice(bytes, i + 3, Len(bytes)))
    ELSE IF Len(bytes) >= expected
    THEN (IF At(bytes, Len(bytes) - expected) = 4
          THEN Ok(Slice(bytes, Len(bytes) - expected, Len(bytes)))
          ELSE TryOffsets(bytes, expected, 1))
    ELSE AVF(M("Failed to extract EC public key point"))

\* The DER of a SubjectPublicKeyInfo up to its point: id-ecPublicKey with
\* prime256v1 and a BIT STRING of 66 bytes, or with secp384r1 and one of
\* 98 bytes.
P256Header ==
    <<48, 89, 48, 19, 6, 7, 42, 134, 72, 206, 61, 2, 1, 6, 8, 42, 134, 72,
      206, 61, 3, 1, 7, 3, 66, 0>>
P384Header ==
    <<48, 118, 48, 16, 6, 7, 42, 134, 72, 206, 61, 2, 1, 6, 5, 43, 129, 4, 0,
      34, 3, 98, 0>>
\* A point of `size` bytes: its first byte, then coordinates all `fill`.
Point(marker, fill, size) == <<marker>> \o Fill(size - 1, fill)
\* The structures extract_ec_point is called on: a point, uncompressed
\* (0x04) or with another first byte, bare or under either header.
PublicKeyInfos ==
    { h \o Point(m, f, size) :
        h \in {<<>>, P256Header, P384Header},
        m \in {4, 2},
        f \in {0, 4, 9},
        size \in {P256PointLen, P384PointLen} }
\* The public-key structure of a key as certificates carry it.
InfoOf(key) ==
    (IF key.size = P256PointLen THEN P256Header ELSE P384Header)
        \o Point(4, 9, key.size)

PointInit ==
    /\ VerifyIdle
    /\ ClientIdle
    /\ StoreNew
    /\ CryptoIdle
    /\ ApiIdle
    /\ SideIdle
    /\ pubkey_bytes \in PublicKeyInfos
    /\ expected_size \in {P256PointLen, P384PointLen}
    /\ ec_point = NotRun

ExtractEcPoint ==
    /\ ~ec_point.done
    /\ ec_point' = Returned(extract_ec_pointBytes(pubkey_bytes, expected_size))
    /\ UNCHANGED <<pubkey_bytes, expected_size, verifyVars, clientVars, storeVars,
                   cryptoVars, apiVars, wireVars, sideVars>>

PointNext == ExtractEcPoint

SpecPoint == PointInit /\ [][PointNext]_vars

\* On the structure of a key as certificates carry it, extract_ec_point
\* by bytes and by key agree: an error together, and the key's whole
\* point together.
PointAgrees ==
    \A size \in {P256PointLen, P384PointLen} :
        LET key == Key(0, size)
            abstract == extract_ec_point(key, expected_size)
            concrete == extract_ec_pointBytes(InfoOf(key), expected_size)
        IN /\ abstract.ok = concrete.ok
           /\ abstract.ok =>
                (abstract.v.whole <=> concrete.v.bytes = Point(4, 9, size))

\* C34: when extract_ec_point returns a point for expected size n, the
\* point is the last n bytes of its input and starts with 0x04; it is cut
\* from no other position of the input.
C34_TrailingPointOnly ==
    (ec_point.done /\ ec_point.r.ok) =>
        LET start == Len(pubkey_bytes) - expected_size IN
        /\ ec_point.r.v.from = start
        /\ ec_point.r.v.bytes = SubSeq(pubkey_bytes, start + 1, Len(pubkey_bytes))
        /\ ec_point.r.v.bytes[1] = 4

\* What holds of a returned point: it has n bytes of the input starting
\* with 0x04, and it is the input's end whenever a BIT STRING led to it.
PointReturned ==
    (ec_point.done /\ ec_point.r.ok) =>
        LET v == ec_point.r.v IN
        /\ Len(v.bytes) = expected_size
        /\ v.bytes = SubSeq(pubkey_bytes, v.from + 1, v.from + expected_size)
        /\ v.bytes[1] = 4
        /\ BitStringHits(pubkey_bytes, expected_size) # {}
             => v.from = Len(pubkey_bytes) - expected_size
====
